---- MODULE Spec2Model ----
(***************************************************************************)
(* careBT behaviour-tree runtime: a SequenceNode (root) with ActionNode    *)
(* children, contingency handlers, parameter binding and timeout timers.   *)
(*                                                                         *)
(* The source files come from neighbouring revisions of the repository and *)
(* spell some methods differently.  The model reads each pair below as one *)
(* method:                                                                 *)
(*   _internal_tick_child / _tick_child,                                   *)
(*   _internal_apply_contingencies / _apply_contingencies,                 *)
(*   _internal_bind_in_params / _bind_in_params  (same for out),           *)
(*   get_message, set_message / get_contingency_message, set_..._message,  *)
(*   get_in_params / _internal_get_in_params     (same for out),           *)
(*   ActionNode._on_tick, _on_abort / _internal_on_tick, _internal_on_abort*)
(*   add_child / append_child,  attach_rule_handler /                      *)
(*   attach_contingency_handler.                                           *)
(* Strings are sequences of one-character strings, _child_ptr is 0-based   *)
(* as in the source, None is the value 0 of a parameter slot.              *)
(***************************************************************************)
EXTENDS Integers, Sequences, FiniteSets, TLC

\* ------------------------------------------------------------------ bounds
MaxChildren == 2
MaxHandlers == 2
MaxTicks == 2
MaxTimers == 2
MaxOutside == 2
MaxMutationHandlers == 1
MaxParallelChildren == 3
MaxThreshold == 3
MaxClock == 8
MaxThrottle == 2
MaxEngineTicks == 3

\* --------------------------------------------------------------- NodeStatus
NodeStatus == {"IDLE", "RUNNING", "SUSPENDED", "SUCCESS", "FAILURE", "FIXED", "ABORTED"}
Terminal == {"SUCCESS", "FAILURE", "FIXED", "ABORTED"}

None == 0
TIMEOUT == <<"T", "I", "M", "E", "O", "U", "T">>

\* ----------------------------------------------------- wildcards (regex)
\* str.replace(old, new) for a one-character old
RECURSIVE replace(_, _, _)
replace(str, old, new) ==
  IF str = <<>> THEN <<>>
  ELSE (IF Head(str) = old THEN new ELSE <<Head(str)>>) \o replace(Tail(str), old, new)

\* ControlNode.__wildcard_to_regex: '?' -> '.', then '*' -> '.*'
wildcard_to_regex(wildcard) ==
  replace(replace(wildcard, "?", <<".">>), "*", <<".", "*">>)

\* one regex atom against one character: '.' is any character
AtomMatches(atom, ch) == atom = "." \/ atom = ch

\* re.match(regex, str): the regex must match at the START of str; the rest
\* of str is not looked at.  A regex produced by wildcard_to_regex is a run
\* of atoms, each optionally followed by '*'.
RECURSIVE re_match_from(_, _, _, _)
re_match_from(regex, i, str, j) ==
  IF i > Len(regex) THEN TRUE
  ELSE IF i + 1 <= Len(regex) /\ regex[i + 1] = "*"
       THEN \/ re_match_from(regex, i + 2, str, j)
            \/ /\ j <= Len(str)
               /\ AtomMatches(regex[i], str[j])
               /\ re_match_from(regex, i, str, j + 1)
       ELSE /\ j <= Len(str)
            /\ AtomMatches(regex[i], str[j])
            /\ re_match_from(regex, i + 1, str, j + 1)

re_match(regex, str) == re_match_from(regex, 1, str, 1)

\* ------------------------------------------------------------- TreeNode
\* A node instance.  timer is the Timer object __timeout_timer refers to
\* (0 = None), pending the Timer objects started and neither fired nor
\* cancelled, started the number of Timers created so far.
ChildSlots == {"a", "b", "y", "z"}

TreeNodeInit ==
  [status |-> "IDLE", msg |-> <<>>, timer |-> 0, pending |-> {}, started |-> 0,
   slots |-> [n \in ChildSlots |-> None]]

\* the descriptor's instance field when it is None
NoInstance ==
  [status |-> "NONE", msg |-> <<>>, timer |-> 0, pending |-> {}, started |-> 0,
   slots |-> [n \in ChildSlots |-> None]]

cancel_timeout_timer(n) ==
  IF n.timer # 0
  THEN [n EXCEPT !.pending = @ \ {n.timer}, !.timer = 0]
  ELSE n

set_status(n, node_status) ==
  LET m == [n EXCEPT !.status = node_status]
  IN  IF node_status \in Terminal THEN cancel_timeout_timer(m) ELSE m

set_contingency_message(n, m) == [n EXCEPT !.msg = m]

set_timeout(n) ==
  LET id == n.started + 1
  IN  [n EXCEPT !.started = id, !.pending = @ \cup {id}, !.timer = id]

\* ------------------------------------------------------------ ActionNode
\* declared parameters of the action classes: '?a => ?z', and for the
\* class with two inputs and two outputs '?a ?b => ?y ?z'
ClsC == <<"C">>
InParams(cls) == IF cls = ClsC THEN <<"a", "b">> ELSE <<"a">>
OutParams(cls) == IF cls = ClsC THEN <<"y", "z">> ELSE <<"z">>

\* ActionNode._on_abort (the action's abort path; no abort handler attached)
action_on_abort(n) == set_status(n, "ABORTED")

\* user on_tick of an action: writes its output, reports status and message
on_tick(n, oc) ==
  LET w == IF oc.out # None THEN [n EXCEPT !.slots["z"] = oc.out] ELSE n
      v == IF oc.out_y # None THEN [w EXCEPT !.slots["y"] = oc.out_y] ELSE w
  IN  set_contingency_message(set_status(v, oc.status), oc.msg)

\* ActionNode._on_tick, no throttle set
action_tick(n, oc) ==
  IF n.status \in {"IDLE", "RUNNING"} THEN on_tick(n, oc) ELSE n

\* TreeNode.on_timeout (default) on an action: abort(), then 'TIMEOUT'
action_on_timeout(n) == set_contingency_message(action_on_abort(n), TIMEOUT)

\* TreeNode.__internal_on_timeout on an action
action_internal_on_timeout(n) ==
  cancel_timeout_timer(IF n.status \in {"RUNNING", "SUSPENDED"}
                       THEN action_on_timeout(n) ELSE n)

\* the clock: datetime has a finer resolution than the millisecond
UnitsPerMs == 2

\* self.__throttle_ms = None
NoThrottle == -1

\* datetime.min, in clock units
datetime_min == -1000000

\* ActionNode.__init__: the node with its throttle and the time of the
\* last on_tick; calls is what the user's on_tick notes each time it runs
ActionNodeInit ==
  [node |-> TreeNodeInit, throttle_ms |-> NoThrottle, last_ts |-> datetime_min,
   calls |-> <<>>]

\* int((current_ts - last_ts).total_seconds() * 1000): whole milliseconds,
\* the fraction dropped
elapsed_ms(current_ts, last_ts) == (current_ts - last_ts) \div UnitsPerMs

\* ActionNode.set_throttle_ms
set_throttle_ms(a, throttle_ms) == [a EXCEPT !.throttle_ms = throttle_ms]

\* variant: the time of the last on_tick is not remembered
throttled_on_tick_forgets(a, current_ts, oc) ==
  IF a.throttle_ms = NoThrottle
     \/ elapsed_ms(current_ts, a.last_ts) >= a.throttle_ms
  THEN IF a.node.status \in {"IDLE", "RUNNING"}
       THEN [a EXCEPT !.node = on_tick(a.node, oc),
                      !.calls = Append(@, current_ts)]
       ELSE a
  ELSE a

\* variant: on_tick runs whatever the status
throttled_on_tick_any_status(a, current_ts, oc) ==
  IF a.throttle_ms = NoThrottle
     \/ elapsed_ms(current_ts, a.last_ts) >= a.throttle_ms
  THEN [a EXCEPT !.node = on_tick(a.node, oc),
                 !.calls = Append(@, current_ts),
                 !.last_ts = current_ts]
  ELSE a

\* ActionNode._on_tick at time current_ts
throttled_on_tick(a, current_ts, oc) ==
  IF a.throttle_ms = NoThrottle
     \/ elapsed_ms(current_ts, a.last_ts) >= a.throttle_ms
  THEN IF a.node.status \in {"IDLE", "RUNNING"}
       THEN [a EXCEPT !.node = on_tick(a.node, oc),
                      !.calls = Append(@, current_ts),
                      !.last_ts = current_ts]
       ELSE a
  ELSE a

\* ------------------------------------------------------ ExecutionContext
\* call arguments: a literal or a reference to a parent slot ('?name')
Lit(v) == [kind |-> "lit", name |-> "", val |-> v]
Ref(n) == [kind |-> "ref", name |-> n, val |-> None]

ClsA == <<"A">>
ClsAB == <<"A", "B">>

\* what a composite passes to append_child: node class and call parameters
\* (already split at '=>' into input and output arguments)
ChildSpecs ==
  { [node |-> ClsA, call_in |-> <<Lit(1)>>, call_out |-> <<"x">>],
    [node |-> ClsAB, call_in |-> <<Ref("x")>>, call_out |-> <<"x">>] }

\* the child a handler adds with append_child / insert_child_after_current
HandlerChild == [node |-> ClsA, call_in |-> <<Lit(1)>>, call_out |-> <<"x">>]

ExecutionContext(id, spec) ==
  [id |-> id, node |-> spec.node, call_in |-> spec.call_in,
   call_out |-> spec.call_out, instance |-> NoInstance]

NoEC == ExecutionContext(0, [node |-> <<>>, call_in |-> <<>>, call_out |-> <<>>])

\* children whose call arguments do not match the declaration: fewer,
\* as many, and more call arguments than declared parameters
BindingSpecs ==
  { [node |-> ClsC, call_in |-> <<Lit(1)>>, call_out |-> <<"x", "w">>],
    [node |-> ClsC, call_in |-> <<Lit(1), Ref("w")>>, call_out |-> <<"x">>],
    [node |-> ClsC, call_in |-> <<Lit(1), Lit(2), Lit(1)>>, call_out |-> <<"w", "x">>],
    [node |-> ClsA, call_in |-> <<>>, call_out |-> <<>>],
    [node |-> ClsA, call_in |-> <<Lit(1), Lit(2)>>, call_out |-> <<"x">>] }

\* ------------------------------------------------- user code of the model
\* what an action's on_tick may do: output written (0 = not written),
\* status and contingency message reported
Outcomes ==
  { [status |-> "SUCCESS",   msg |-> <<>>,         out |-> 1, out_y |-> None],
    [status |-> "FAILURE",   msg |-> <<"a", "b">>, out |-> 2, out_y |-> None],
    [status |-> "FAILURE",   msg |-> <<>>,         out |-> None, out_y |-> None],
    [status |-> "ABORTED",   msg |-> <<"a">>,      out |-> None, out_y |-> None],
    [status |-> "RUNNING",   msg |-> <<>>,         out |-> None, out_y |-> None],
    [status |-> "SUSPENDED", msg |-> <<>>,         out |-> 2, out_y |-> None] }

\* on_tick of an action that sets both, one or none of its two outputs
BindingOutcomes ==
  { [status |-> "SUCCESS", msg |-> <<>>, out |-> z, out_y |-> y] :
      z \in {None, 2}, y \in {None, 1} }
  \cup { [status |-> "FAILURE", msg |-> <<"a">>, out |-> 2, out_y |-> 1],
         [status |-> "RUNNING", msg |-> <<>>, out |-> None, out_y |-> None] }

\* what the external part of an asynchronous action may report between ticks
AsyncOutcomes ==
  { [status |-> "SUCCESS", msg |-> <<>>,         out |-> 1, out_y |-> None],
    [status |-> "FAILURE", msg |-> <<"a", "b">>, out |-> None, out_y |-> None] }

\* registrations a sequence may attach: (class pattern, statuses, message
\* pattern, handler); body is what the named handler method does
Registrations ==
  { [cls |-> <<"*">>, statuses |-> {"FAILURE", "ABORTED"}, msg |-> <<"*">>,
     body |-> <<"fix_current_child">>],
    [cls |-> ClsA, statuses |-> {"FAILURE"}, msg |-> <<"*">>,
     body |-> <<"abort">>],
    [cls |-> <<"A", "?">>, statuses |-> {"SUCCESS", "FAILURE"}, msg |-> <<>>,
     body |-> <<>>] }

\* registrations whose handlers change the child list (the handlers of the
\* TickCounting...Del/Add test classes, for a sequence)
MutationRegistrations ==
  { [cls |-> <<"*">>, statuses |-> {"FAILURE"}, msg |-> <<"*">>,
     body |-> <<"remove_all_children", "append_child">>],
    [cls |-> <<"*">>, statuses |-> {"ABORTED"}, msg |-> <<"*">>,
     body |-> <<"remove_all_children">>],
    [cls |-> <<"*">>, statuses |-> {"FAILURE", "ABORTED"}, msg |-> <<"*">>,
     body |-> <<"insert_child_after_current", "insert_child_after_current",
                "fix_current_child">>],
    [cls |-> ClsAB, statuses |-> {"FAILURE"}, msg |-> <<"*">>,
     body |-> <<"remove_all_children", "insert_child_after_current",
                "insert_child_after_current">>],
    [cls |-> ClsA, statuses |-> {"FAILURE"}, msg |-> <<"a", "*">>,
     body |-> <<"remove_all_children", "abort">>],
    [cls |-> ClsA, statuses |-> {"FAILURE"}, msg |-> <<"*">>,
     body |-> <<"abort">>] }

\* ---------------------------------------------------------------- state
VARIABLES
  node_status,              \* TreeNode.__node_status of the sequence
  contingency_message,      \* TreeNode.__contingency_message of the sequence
  timeout_timer,            \* TreeNode.__timeout_timer of the sequence
  pending_timers,           \* Timers of the sequence started, not fired, not cancelled
  timers_started,           \* number of Timers the sequence created
  child_ptr,                \* ControlNode._child_ptr
  child_ec_list,            \* ControlNode._child_ec_list
  contingency_handler_list, \* ControlNode._contingency_handler_list
  params,                   \* parameter slots of the sequence
  next_id,                  \* identity of the next descriptor created
  tick_count,               \* ticks of the sequence performed by the runner
  log,                      \* hook calls made by the last operation, in order
  raised,                   \* the last operation ended in an exception
  crashed,                  \* a tick ended in an exception
  last,                     \* what the last tick dispatched (child, statuses)
  outside_count,            \* operations of other code so far
  quiet,                    \* so far every child succeeded on its first tick
                            \* and nothing else acted on the sequence
  success_threshold,        \* ParallelNode: the success threshold (0 = None)
  now,                      \* datetime.now(), in clock units
  action,                   \* an ActionNode on its own, with its throttle and
                            \* the times at which its on_tick ran
  engine_ticks,             \* engine ticks of that action so far
  timer_thread              \* the Timer thread: the statement its callback is
                            \* at and the node (descriptor id) it runs on

control_vars == <<node_status, contingency_message, timeout_timer, pending_timers,
                  timers_started, child_ptr, child_ec_list, contingency_handler_list,
                  params, next_id, tick_count, log, raised, crashed, last,
                  outside_count, quiet, success_threshold, timer_thread>>

action_vars == <<now, action, engine_ticks>>

vars == <<control_vars, action_vars>>

\* the parameter slots the sequence has: '?x ?w'
ParentSlots == {"x", "w"}

\* no Timer callback is running
NoCallback == [pc |-> "none", node |-> 0]

NoLast == [cid |-> 0, idx |-> 0, cls |-> <<>>,
           pre_status |-> "NONE", pre_msg |-> <<>>,
           post_status |-> "NONE", post_msg |-> <<>>, post_out |-> None,
           post_out_y |-> None]

\* the sequence object and the bookkeeping of the running operation
World ==
  [status |-> node_status, msg |-> contingency_message, timer |-> timeout_timer,
   pending |-> pending_timers, started |-> timers_started,
   ptr |-> child_ptr, ecs |-> child_ec_list, params |-> params,
   next_id |-> next_id, log |-> <<>>, raised |-> FALSE,
   held |-> NoEC, last |-> NoLast, threshold |-> success_threshold,
   thread |-> timer_thread]

Raise(s) == [s EXCEPT !.raised = TRUE]
Emit(s, ev, n) == [s EXCEPT !.log = Append(@, <<ev, n>>)]

\* assignment to the instance field (or to a field of the instance) of the
\* descriptor at list position k; held is the same descriptor object when
\* the identities agree
SetInst(s, k, inst) ==
  [s EXCEPT !.ecs[k].instance = inst,
            !.held = IF @.id = s.ecs[k].id THEN [@ EXCEPT !.instance = inst] ELSE @]

\* self._child_ec_list[self._child_ptr]
Cur(s) == s.ecs[s.ptr + 1]
HasCur(s) == s.ptr + 1 <= Len(s.ecs)

\* on_delete() and instance = None for the descriptor at the cursor
Release(s) ==
  SetInst(Emit(s, "delete", Cur(s).id), s.ptr + 1, NoInstance)

\* ----------------------------------------------------------- ControlNode
\* ControlNode._bind_in_params, from position i on.  getattr(self, name)
\* raises for a slot the parent does not have, get_in_params()[i] raises
\* for a position the child did not declare.
RECURSIVE bind_in_params_from(_, _, _)
bind_in_params_from(s, k, i) ==
  IF s.raised \/ i > Len(s.ecs[k].call_in) THEN s
  ELSE LET arg == s.ecs[k].call_in[i]
           decl == InParams(s.ecs[k].node)
       IN  IF arg.kind = "ref" /\ arg.name \notin DOMAIN s.params THEN Raise(s)
           ELSE IF i > Len(decl) THEN Raise(s)
           ELSE LET v == IF arg.kind = "ref" THEN s.params[arg.name] ELSE arg.val
                    inst == [s.ecs[k].instance EXCEPT !.slots[decl[i]] = v]
                IN  bind_in_params_from(SetInst(s, k, inst), k, i + 1)

\* variant: a reference to a parent slot is not read
RECURSIVE bind_in_params_unread_from(_, _, _)
bind_in_params_unread_from(s, k, i) ==
  IF s.raised \/ i > Len(s.ecs[k].call_in) THEN s
  ELSE LET arg == s.ecs[k].call_in[i]
           decl == InParams(s.ecs[k].node)
       IN  IF arg.kind = "ref" /\ arg.name \notin DOMAIN s.params THEN Raise(s)
           ELSE IF i > Len(decl) THEN Raise(s)
           ELSE LET inst == [s.ecs[k].instance EXCEPT !.slots[decl[i]] = arg.val]
                IN  bind_in_params_unread_from(SetInst(s, k, inst), k, i + 1)

bind_in_params_unread(s, k) == bind_in_params_unread_from(s, k, 1)

\* ControlNode._bind_in_params
bind_in_params(s, k) == bind_in_params_from(s, k, 1)

\* ControlNode._bind_out_params, from declared output i on
RECURSIVE bind_out_params_from(_, _, _)
bind_out_params_from(s, k, i) ==
  LET decl == OutParams(s.ecs[k].node)
  IN  IF i > Len(decl) THEN s
      ELSE LET v == s.ecs[k].instance.slots[decl[i]]
           IN  IF v = None THEN bind_out_params_from(s, k, i + 1)
               ELSE IF Len(s.ecs[k].call_out) <= i - 1
                    THEN bind_out_params_from(s, k, i + 1)
               ELSE bind_out_params_from(
                      [s EXCEPT !.params[s.ecs[k].call_out[i]] = v], k, i + 1)

\* variant: binding stops at the first output the child left unset
RECURSIVE bind_out_params_stops_from(_, _, _)
bind_out_params_stops_from(s, k, i) ==
  LET decl == OutParams(s.ecs[k].node)
  IN  IF i > Len(decl) THEN s
      ELSE LET v == s.ecs[k].instance.slots[decl[i]]
           IN  IF v = None THEN s
               ELSE IF Len(s.ecs[k].call_out) <= i - 1
                    THEN bind_out_params_stops_from(s, k, i + 1)
               ELSE bind_out_params_stops_from(
                      [s EXCEPT !.params[s.ecs[k].call_out[i]] = v], k, i + 1)

bind_out_params_stops(s, k) == bind_out_params_stops_from(s, k, 1)

\* ControlNode._bind_out_params
bind_out_params(s, k) == bind_out_params_from(s, k, 1)

\* ControlNode._tick_child on the descriptor at the cursor
tick_child(s, oc) ==
  LET inst == Cur(s).instance
  IN  IF inst.status \in {"IDLE", "RUNNING"}
      THEN SetInst(Emit(s, "tick", Cur(s).id), s.ptr + 1, action_tick(inst, oc))
      ELSE s

\* the match test of ControlNode._apply_contingencies
Matches(reg, cls, status, msg) ==
  /\ re_match(wildcard_to_regex(reg.cls), cls)
  /\ status \in reg.statuses
  /\ re_match(wildcard_to_regex(reg.msg), msg)

\* variant: the message of the fixed child is kept
fix_current_child_keep_message(s) ==
  IF ~HasCur(s) \/ Cur(s).instance = NoInstance THEN Raise(s)
  ELSE SetInst(s, s.ptr + 1, set_status(Cur(s).instance, "FIXED"))

\* ControlNode.fix_current_child
fix_current_child(s) ==
  IF ~HasCur(s) \/ Cur(s).instance = NoInstance THEN Raise(s)
  ELSE SetInst(s, s.ptr + 1,
               set_contingency_message(set_status(Cur(s).instance, "FIXED"), <<>>))

\* --------------------------------------------------------- SequenceNode
\* line 131: the abort path of the child at the cursor; the log notes a
\* child that is ABORTED when the call returns
abort_current_child(s) ==
  LET a == SetInst(s, s.ptr + 1, action_on_abort(Cur(s).instance))
  IN  IF Cur(a).instance.status = "ABORTED" THEN Emit(a, "child_aborted", Cur(a).id)
      ELSE a

\* variant: the child's message is not taken over
internal_on_abort_no_message(s0) ==
  LET s == cancel_timeout_timer(s0)
  IN  IF ~HasCur(s) \/ Cur(s).instance = NoInstance THEN Raise(s)
      ELSE LET s1 == IF Cur(s).instance.status \in {"RUNNING", "SUSPENDED"}
                     THEN abort_current_child(s)
                     ELSE s
               s2 == Emit(set_status(s1, "ABORTED"), "set_aborted", 0)
               s3 == IF Cur(s2).instance # NoInstance THEN Release(s2) ELSE s2
           IN  Emit(s3, "on_abort", 0)

\* variant: the sequence is set to ABORTED before its child is aborted
internal_on_abort_self_first(s0) ==
  LET s == cancel_timeout_timer(s0)
  IN  IF ~HasCur(s) \/ Cur(s).instance = NoInstance THEN Raise(s)
      ELSE LET s1 == Emit(set_status(s, "ABORTED"), "set_aborted", 0)
               s2 == IF Cur(s1).instance.status \in {"RUNNING", "SUSPENDED"}
                     THEN abort_current_child(s1)
                     ELSE s1
               s3 == set_contingency_message(s2, Cur(s2).instance.msg)
               s4 == IF Cur(s3).instance # NoInstance THEN Release(s3) ELSE s3
           IN  Emit(s4, "on_abort", 0)

\* SequenceNode._internal_on_abort
internal_on_abort(s0) ==
  LET s == cancel_timeout_timer(s0)
  IN  IF ~HasCur(s) \/ Cur(s).instance = NoInstance THEN Raise(s)
      ELSE LET s1 == IF Cur(s).instance.status \in {"RUNNING", "SUSPENDED"}
                     THEN abort_current_child(s)
                     ELSE s
               s2 == set_contingency_message(
                       Emit(set_status(s1, "ABORTED"), "set_aborted", 0),
                       Cur(s1).instance.msg)
               s3 == IF Cur(s2).instance # NoInstance THEN Release(s2) ELSE s2
           IN  Emit(s3, "on_abort", 0)

\* SequenceNode.append_child
append_child(s, spec) ==
  [s EXCEPT !.ecs = Append(@, ExecutionContext(s.next_id, spec)),
            !.next_id = @ + 1]

\* list.insert(pos, e) with 0-based pos <= len
list_insert(list, pos, e) ==
  SubSeq(list, 1, pos) \o <<e>> \o SubSeq(list, pos + 1, Len(list))

\* variant: always inserted behind the cursor
insert_child_after_current_behind(s, spec) ==
  LET e == ExecutionContext(s.next_id, spec)
      at == IF s.ptr + 1 <= Len(s.ecs) THEN s.ptr + 1 ELSE Len(s.ecs)
  IN  [Emit(s, "insert", e.id) EXCEPT !.ecs = list_insert(@, at, e), !.next_id = @ + 1]

\* SequenceNode.insert_child_after_current
insert_child_after_current(s, spec) ==
  LET e == ExecutionContext(s.next_id, spec)
      at == IF Len(s.ecs) # 0 /\ Cur(s).instance = NoInstance /\ s.ptr = 0
            THEN 0
            ELSE IF s.ptr + 1 <= Len(s.ecs) THEN s.ptr + 1 ELSE Len(s.ecs)
  IN  [Emit(s, "insert", e.id) EXCEPT !.ecs = list_insert(@, at, e), !.next_id = @ + 1]

\* variant: the list is cleared without on_delete of the current child
remove_all_children_no_delete(s) ==
  IF ~HasCur(s) \/ Cur(s).instance = NoInstance THEN Raise(s)
  ELSE [s EXCEPT !.ecs = <<>>, !.ptr = 0]

\* variant: the cursor is left where it was
remove_all_children_keeps_cursor(s) ==
  IF ~HasCur(s) \/ Cur(s).instance = NoInstance THEN Raise(s)
  ELSE [Emit(s, "delete", Cur(s).id) EXCEPT !.ecs = <<>>]

\* SequenceNode.remove_all_children
remove_all_children(s) ==
  IF ~HasCur(s) \/ Cur(s).instance = NoInstance THEN Raise(s)
  ELSE [Emit(s, "delete", Cur(s).id) EXCEPT !.ecs = <<>>, !.ptr = 0]

\* one call made by a handler method
HandlerCall(s, op) ==
  CASE op = "abort" -> internal_on_abort(s)
    [] op = "fix_current_child" -> fix_current_child(s)
    [] op = "remove_all_children" -> remove_all_children(s)
    [] op = "append_child" -> append_child(s, HandlerChild)
    [] op = "insert_child_after_current" -> insert_child_after_current(s, HandlerChild)

\* exec('self.{}()'): the handler method's calls in order, until one raises
RECURSIVE RunHandler(_, _)
RunHandler(s, body) ==
  IF body = <<>> \/ s.raised THEN s
  ELSE RunHandler(HandlerCall(s, Head(body)), Tail(body))

\* the 'after contingency_handler' log line reads child_ec.instance
AfterHandler(s) ==
  IF s.raised THEN s
  ELSE IF s.held.instance = NoInstance THEN Raise(s)
  ELSE s

\* variant: no break after the first matching registration
RECURSIVE apply_contingencies_no_break(_, _)
apply_contingencies_no_break(s, i) ==
  IF i > Len(contingency_handler_list) \/ s.raised THEN s
  ELSE IF Matches(contingency_handler_list[i], s.held.node,
                  s.held.instance.status, s.held.instance.msg)
       THEN apply_contingencies_no_break(
              AfterHandler(RunHandler(Emit(s, "handler", i),
                                      contingency_handler_list[i].body)), i + 1)
       ELSE apply_contingencies_no_break(s, i + 1)

\* the loop of ControlNode._apply_contingencies from registration i on
RECURSIVE apply_contingencies_from(_, _)
apply_contingencies_from(s, i) ==
  IF i > Len(contingency_handler_list) THEN s
  ELSE IF Matches(contingency_handler_list[i], s.held.node,
                  s.held.instance.status, s.held.instance.msg)
       THEN AfterHandler(RunHandler(Emit(s, "handler", i),
                                    contingency_handler_list[i].body))
       ELSE apply_contingencies_from(s, i + 1)

\* ControlNode._apply_contingencies for the descriptor at the cursor; the
\* statuses seen before and after are kept in last
apply_contingencies(s0) ==
  LET c == Cur(s0)
      s == [s0 EXCEPT !.held = c,
                      !.last = [@ EXCEPT !.cid = c.id, !.idx = s0.ptr, !.cls = c.node,
                                         !.pre_status = c.instance.status,
                                         !.pre_msg = c.instance.msg]]
      r == apply_contingencies_from(s, 1)
  IN  [r EXCEPT !.last = [@ EXCEPT !.post_status = r.held.instance.status,
                                   !.post_msg = r.held.instance.msg,
                                   !.post_out = r.held.instance.slots["z"],
                                   !.post_out_y = r.held.instance.slots["y"]],
                !.held = NoEC]

\* lines 71-76: create the instance of the descriptor at the cursor, bind
\* its inputs, call on_init
create_child(s) ==
  LET b == bind_in_params(SetInst(s, s.ptr + 1, TreeNodeInit), s.ptr + 1)
  IN  IF b.raised THEN b
      ELSE Emit(Emit(b, "bind", Cur(b).id), "init", Cur(b).id)

\* variant: 'one more node to run' tested one position too far
child_succeeded_early(s, cur_child_state) ==
  LET m == Cur(s).instance.msg
      s1 == IF cur_child_state # "FIXED" THEN bind_out_params(s, s.ptr + 1) ELSE s
      s2 == IF Cur(s1).instance # NoInstance THEN Release(s1) ELSE s1
  IN  IF s2.ptr + 2 < Len(s2.ecs)
      THEN [s2 EXCEPT !.ptr = @ + 1]
      ELSE set_contingency_message(set_status(s2, "SUCCESS"), m)

\* variant: outputs bound for FIXED as well
child_succeeded_bind_fixed(s, cur_child_state) ==
  LET m == Cur(s).instance.msg
      s1 == bind_out_params(s, s.ptr + 1)
      s2 == IF Cur(s1).instance # NoInstance THEN Release(s1) ELSE s1
  IN  IF s2.ptr + 1 < Len(s2.ecs)
      THEN [s2 EXCEPT !.ptr = @ + 1]
      ELSE set_contingency_message(set_status(s2, "SUCCESS"), m)

\* variant: the sequence is SUCCESS as soon as one child succeeded
child_succeeded_at_once(s, cur_child_state) ==
  LET m == Cur(s).instance.msg
      s1 == IF cur_child_state # "FIXED" THEN bind_out_params(s, s.ptr + 1) ELSE s
      s2 == IF Cur(s1).instance # NoInstance THEN Release(s1) ELSE s1
  IN  set_contingency_message(set_status(s2, "SUCCESS"), m)

\* variant: the finished child keeps its instance
child_succeeded_keeps_instance(s, cur_child_state) ==
  LET m == Cur(s).instance.msg
      s1 == IF cur_child_state # "FIXED" THEN bind_out_params(s, s.ptr + 1) ELSE s
  IN  IF s1.ptr + 1 < Len(s1.ecs)
      THEN [s1 EXCEPT !.ptr = @ + 1]
      ELSE set_contingency_message(set_status(s1, "SUCCESS"), m)

\* variant: the cursor moves on after the last child as well
child_succeeded_moves_on(s, cur_child_state) ==
  LET m == Cur(s).instance.msg
      s1 == IF cur_child_state # "FIXED" THEN bind_out_params(s, s.ptr + 1) ELSE s
      s2 == IF Cur(s1).instance # NoInstance THEN Release(s1) ELSE s1
  IN  IF s2.ptr + 1 < Len(s2.ecs)
      THEN [s2 EXCEPT !.ptr = @ + 1]
      ELSE [set_contingency_message(set_status(s2, "SUCCESS"), m) EXCEPT !.ptr = @ + 1]

\* lines 96-114: the current child ended SUCCESS or FIXED
child_succeeded(s, cur_child_state) ==
  LET m == Cur(s).instance.msg
      s1 == IF cur_child_state # "FIXED" THEN bind_out_params(s, s.ptr + 1) ELSE s
      s2 == IF Cur(s1).instance # NoInstance THEN Release(s1) ELSE s1
  IN  IF s2.ptr + 1 < Len(s2.ecs)
      THEN [s2 EXCEPT !.ptr = @ + 1]
      ELSE set_contingency_message(set_status(s2, "SUCCESS"), m)

\* variant: the failing child's message is not copied
proceed_no_message(s) ==
  IF s.status # "RUNNING" THEN s
  ELSE IF ~HasCur(s) THEN Raise(s)
  ELSE IF Cur(s).instance = NoInstance THEN s
  ELSE LET st == Cur(s).instance.status
           s1 == IF st \in {"FAILURE", "ABORTED"} THEN set_status(s, st) ELSE s
       IN  IF st \in {"SUCCESS", "FIXED"} THEN child_succeeded(s1, st) ELSE s1

\* lines 84-114: 'finally, check how to proceed in the sequence'
proceed(s) ==
  IF s.status # "RUNNING" THEN s
  ELSE IF ~HasCur(s) THEN Raise(s)
  ELSE IF Cur(s).instance = NoInstance THEN s
  ELSE LET st == Cur(s).instance.status
           s1 == IF st \in {"FAILURE", "ABORTED"}
                 THEN set_contingency_message(set_status(s, st), Cur(s).instance.msg)
                 ELSE s
       IN  IF st \in {"SUCCESS", "FIXED"} THEN child_succeeded(s1, st) ELSE s1

\* variant: a finished sequence keeps the child at the cursor
finish_keeps_instance(s) ==
  IF s.status \notin Terminal THEN s
  ELSE IF ~HasCur(s) THEN Raise(s)
  ELSE s

\* lines 116-123: a finished sequence releases the child at the cursor
finish(s) ==
  IF s.status \notin Terminal THEN s
  ELSE IF ~HasCur(s) THEN Raise(s)
  ELSE IF Cur(s).instance # NoInstance THEN Release(s)
  ELSE s

\* variant: the child at the cursor is created anew in every tick
internal_on_tick_recreates(s0, oc) ==
  LET t0 == Emit(s0, "ticking", 0)
      s1 == IF t0.status # "RUNNING" THEN set_status(t0, "RUNNING") ELSE t0
  IN  IF Len(s1.ecs) = 0 THEN s1
      ELSE LET s2 == create_child(s1)
               s3 == IF s2.raised THEN s2 ELSE tick_child(s2, oc)
               s4 == IF s3.raised THEN s3 ELSE apply_contingencies(s3)
               s5 == IF s4.raised THEN s4 ELSE proceed(s4)
           IN  IF s5.raised THEN s5 ELSE finish(s5)

\* variant: the child the cursor advanced to is ticked in the same tick
internal_on_tick_eager(s0, oc) ==
  LET t0 == Emit(s0, "ticking", 0)
      s1 == IF t0.status # "RUNNING" THEN set_status(t0, "RUNNING") ELSE t0
  IN  IF Len(s1.ecs) = 0 THEN s1
      ELSE LET s2 == IF Cur(s1).instance = NoInstance THEN create_child(s1) ELSE s1
               s3 == IF s2.raised THEN s2 ELSE tick_child(s2, oc)
               s4 == IF s3.raised THEN s3 ELSE apply_contingencies(s3)
               s5 == IF s4.raised THEN s4 ELSE proceed(s4)
               s6 == IF ~s5.raised /\ s5.status = "RUNNING" /\ s5.ptr # s1.ptr
                     THEN tick_child(create_child(s5), oc) ELSE s5
           IN  IF s6.raised THEN s6 ELSE finish(s6)

\* variant: a sequence without children has nothing left to run and ends
internal_on_tick_empty_succeeds(s0, oc) ==
  LET t0 == Emit(s0, "ticking", 0)
      s1 == IF t0.status # "RUNNING" THEN set_status(t0, "RUNNING") ELSE t0
  IN  IF Len(s1.ecs) = 0 THEN set_status(s1, "SUCCESS")
      ELSE LET s2 == IF Cur(s1).instance = NoInstance THEN create_child(s1) ELSE s1
               s3 == IF s2.raised THEN s2 ELSE tick_child(s2, oc)
               s4 == IF s3.raised THEN s3 ELSE apply_contingencies(s3)
               s5 == IF s4.raised THEN s4 ELSE proceed(s4)
           IN  IF s5.raised THEN s5 ELSE finish(s5)

\* SequenceNode._internal_on_tick; oc is what the child's on_tick does if
\* the child is ticked
internal_on_tick(s0, oc) ==
  LET t0 == Emit(s0, "ticking", 0)
      s1 == IF t0.status # "RUNNING" THEN set_status(t0, "RUNNING") ELSE t0
  IN  IF Len(s1.ecs) = 0 THEN s1
      ELSE LET s2 == IF Cur(s1).instance = NoInstance THEN create_child(s1) ELSE s1
               s3 == IF s2.raised THEN s2 ELSE tick_child(s2, oc)
               s4 == IF s3.raised THEN s3 ELSE apply_contingencies(s3)
               s5 == IF s4.raised THEN s4 ELSE proceed(s4)
           IN  IF s5.raised THEN s5 ELSE finish(s5)

\* TreeNode.on_timeout (default) on the sequence: abort(), then 'TIMEOUT'
on_timeout(s) ==
  LET a == internal_on_abort(Emit(s, "on_timeout", 0))
  IN  IF a.raised THEN a ELSE set_contingency_message(a, TIMEOUT)

\* TreeNode.__internal_on_timeout on the sequence
internal_on_timeout(s) ==
  LET t == IF s.status \in {"RUNNING", "SUSPENDED"} THEN on_timeout(s) ELSE s
  IN  IF t.raised THEN t ELSE cancel_timeout_timer(t)

\* ------------------------------------------------------------ the runner
\* BehaviorTreeRunner.run keeps ticking until the root is terminal; an
\* exception leaving a tick ends the loop
RunnerLoopCondition == node_status \notin Terminal /\ ~crashed

\* ---------------------------------------------------------------- actions
\* the state the operation leaves behind
Store(w) ==
  /\ node_status' = w.status
  /\ contingency_message' = w.msg
  /\ timeout_timer' = w.timer
  /\ pending_timers' = w.pending
  /\ timers_started' = w.started
  /\ child_ptr' = w.ptr
  /\ child_ec_list' = w.ecs
  /\ params' = w.params
  /\ next_id' = w.next_id
  /\ log' = w.log
  /\ raised' = w.raised
  /\ last' = w.last
  /\ success_threshold' = w.threshold
  /\ timer_thread' = w.thread
  /\ UNCHANGED action_vars

Init ==
  /\ node_status = "IDLE"
  /\ contingency_message = <<>>
  /\ timeout_timer = 0
  /\ pending_timers = {}
  /\ timers_started = 0
  /\ child_ptr = 0
  /\ child_ec_list = <<>>
  /\ contingency_handler_list = <<>>
  /\ params = [n \in ParentSlots |-> None]
  /\ next_id = 1
  /\ tick_count = 0
  /\ log = <<>>
  /\ raised = FALSE
  /\ crashed = FALSE
  /\ last = NoLast
  /\ outside_count = 0
  /\ quiet = TRUE
  /\ success_threshold = 0
  /\ now = 0
  /\ action = ActionNodeInit
  /\ engine_ticks = 0
  /\ timer_thread = NoCallback

Building == node_status = "IDLE" /\ tick_count = 0 /\ timers_started = 0 /\ ~raised

\* the sequence's constructor or on_init adds a child
AppendChild ==
  /\ Building
  /\ Len(child_ec_list) < MaxChildren
  /\ \E spec \in ChildSpecs : Store(append_child(World, spec))
  /\ UNCHANGED <<contingency_handler_list, tick_count, crashed, outside_count, quiet>>

\* ControlNode.attach_contingency_handler
AttachContingencyHandler ==
  /\ Building
  /\ Len(contingency_handler_list) < MaxHandlers
  /\ \E reg \in Registrations :
       /\ \A i \in 1..Len(contingency_handler_list) : contingency_handler_list[i] # reg
       /\ contingency_handler_list' = Append(contingency_handler_list, reg)
  /\ Store(World)
  /\ UNCHANGED <<tick_count, crashed, outside_count, quiet>>

\* the handler calls of the operation recorded in w.log
HandlersRun(w) == { w.log[i][2] : i \in { j \in 1..Len(w.log) : w.log[j][1] = "handler" } }

\* a tick in which the child at the cursor was created, ticked once and
\* succeeded, and no handler did anything
QuietTick(w) ==
  /\ ~w.raised
  /\ w.last.pre_status = "SUCCESS"
  /\ \E i \in 1..Len(w.log) : w.log[i][1] = "init"
  /\ \A h \in HandlersRun(w) : contingency_handler_list[h].body = <<>>

\* one iteration of the runner's loop: the root is ticked
Tick ==
  /\ RunnerLoopCondition
  /\ tick_count < MaxTicks
  /\ \E oc \in Outcomes :
       LET w == internal_on_tick(World, oc)
       IN  /\ Store(w)
           /\ crashed' = w.raised
           /\ quiet' = (quiet /\ QuietTick(w))
  /\ tick_count' = tick_count + 1
  /\ UNCHANGED <<contingency_handler_list, outside_count>>

\* the descriptors that hold an instance
Live == { k \in 1..Len(child_ec_list) : child_ec_list[k].instance # NoInstance }

\* an operation of other code (timer thread, asynchronous action, caller)
Outside(w) ==
  /\ outside_count < MaxOutside
  /\ outside_count' = outside_count + 1
  /\ Store(w)
  /\ quiet' = FALSE
  /\ UNCHANGED <<contingency_handler_list, tick_count, crashed>>

\* the external part of an asynchronous action reports its status
AsyncComplete ==
  \E k \in Live, oc \in AsyncOutcomes :
    /\ child_ec_list[k].instance.status \in {"RUNNING", "SUSPENDED"}
    /\ Outside(SetInst(World, k, on_tick(child_ec_list[k].instance, oc)))

\* a running action calls set_timeout
SetTimeoutChild ==
  \E k \in Live :
    /\ child_ec_list[k].instance.status \in {"RUNNING", "SUSPENDED"}
    /\ child_ec_list[k].instance.started < MaxTimers
    /\ Outside(SetInst(World, k, set_timeout(child_ec_list[k].instance)))

\* the sequence calls set_timeout in its constructor or on_init
SetTimeoutSeq ==
  /\ node_status = "IDLE" /\ tick_count = 0
  /\ timers_started < MaxTimers
  /\ Outside(set_timeout(World))

\* a Timer of an action fires; the log tells whether on_timeout was called
TimerFireChild ==
  \E k \in Live : \E id \in child_ec_list[k].instance.pending :
    LET inst == child_ec_list[k].instance
        w == Emit(World, "timer", child_ec_list[k].id)
        v == IF inst.status \in {"RUNNING", "SUSPENDED"}
             THEN Emit(w, "on_timeout", child_ec_list[k].id) ELSE w
    IN  Outside(SetInst(v, k,
                  action_internal_on_timeout([inst EXCEPT !.pending = @ \ {id}])))

\* a Timer of the sequence fires
TimerFireSeq ==
  \E id \in pending_timers :
    Outside(internal_on_timeout(
              Emit([World EXCEPT !.pending = @ \ {id}], "timer", 0)))

\* TreeNode.abort called on the sequence
Abort ==
  Outside(internal_on_abort(Emit(World, "abort", 0)))

\* TreeNode.abort called on an action instance
AbortChild ==
  \E k \in Live :
    Outside(SetInst(World, k, action_on_abort(child_ec_list[k].instance)))

Next ==
  \/ AppendChild
  \/ AttachContingencyHandler
  \/ Tick
  \/ AsyncComplete
  \/ SetTimeoutChild
  \/ SetTimeoutSeq
  \/ TimerFireChild
  \/ TimerFireSeq
  \/ Abort
  \/ AbortChild

Spec == Init /\ [][Next]_vars

\* ------------------------------------- a sequence whose handlers mutate it
\* attach_contingency_handler with a handler that changes the child list
AttachMutationHandler ==
  /\ Building
  /\ Len(contingency_handler_list) < MaxMutationHandlers
  /\ \E reg \in MutationRegistrations :
       /\ \A i \in 1..Len(contingency_handler_list) : contingency_handler_list[i] # reg
       /\ contingency_handler_list' = Append(contingency_handler_list, reg)
  /\ Store(World)
  /\ UNCHANGED <<tick_count, crashed, outside_count, quiet>>

\* the sequence's constructor or on_init calls insert_child_after_current
InsertChildAfterCurrent ==
  /\ Building
  /\ Len(child_ec_list) < MaxChildren
  /\ \E spec \in ChildSpecs : Store(insert_child_after_current(World, spec))
  /\ UNCHANGED <<contingency_handler_list, tick_count, crashed, outside_count, quiet>>

NextMutation ==
  \/ AppendChild
  \/ InsertChildAfterCurrent
  \/ AttachMutationHandler
  \/ Tick
  \/ AsyncComplete

SpecMutation == Init /\ [][NextMutation]_vars

\* ------------------------------ children bound with mismatching arguments
\* the sequence's constructor or on_init adds a child
AppendBindingChild ==
  /\ Building
  /\ Len(child_ec_list) < MaxChildren
  /\ \E spec \in BindingSpecs : Store(append_child(World, spec))
  /\ UNCHANGED <<contingency_handler_list, tick_count, crashed, outside_count, quiet>>

\* one iteration of the runner's loop, with the actions above as children
BindingTick ==
  /\ RunnerLoopCondition
  /\ tick_count < MaxTicks
  /\ \E oc \in BindingOutcomes :
       LET w == internal_on_tick(World, oc)
       IN  /\ Store(w)
           /\ crashed' = w.raised
           /\ quiet' = (quiet /\ QuietTick(w))
  /\ tick_count' = tick_count + 1
  /\ UNCHANGED <<contingency_handler_list, outside_count>>

NextBinding ==
  \/ AppendBindingChild
  \/ AttachContingencyHandler
  \/ BindingTick

SpecBinding == Init /\ [][NextBinding]_vars

\* ----------------------------------- the Timer thread, statement by statement
\* The callback of an action's Timer runs on the Timer's thread; the tick
\* thread and the external part of an asynchronous action run between its
\* statements.  A node that the sequence released in the meantime is no
\* longer part of the tree: the callback's writes to it are not seen.
ThreadStep(w) ==
  /\ Store(w)
  /\ quiet' = FALSE
  /\ UNCHANGED <<contingency_handler_list, tick_count, crashed, outside_count>>

\* the list position of the node the callback runs on, 0 when released
CallbackNode ==
  LET ks == { k \in Live : child_ec_list[k].id = timer_thread.node }
  IN  IF ks = {} THEN 0 ELSE CHOOSE k \in ks : TRUE

\* treeNode.py:78-79: the Timer fires, the callback reads the status
TimerRead ==
  /\ timer_thread.pc = "none"
  /\ \E k \in Live : \E id \in child_ec_list[k].instance.pending :
       LET inst == child_ec_list[k].instance
           w == SetInst(Emit(World, "timer", child_ec_list[k].id), k,
                        [inst EXCEPT !.pending = @ \ {id}])
       IN  ThreadStep([w EXCEPT !.thread =
                         [pc |-> IF inst.status \in {"RUNNING", "SUSPENDED"}
                                 THEN "abort" ELSE "cancel",
                          node |-> child_ec_list[k].id]])

\* treeNode.py:80,133: on_timeout calls abort()
TimerAbort ==
  /\ timer_thread.pc = "abort"
  /\ LET k == CallbackNode
         w == Emit(World, "on_timeout", timer_thread.node)
         v == IF k = 0 THEN w
              ELSE SetInst(w, k, action_on_abort(child_ec_list[k].instance))
     IN  ThreadStep([v EXCEPT !.thread.pc = "message"])

\* treeNode.py:134: set_contingency_message('TIMEOUT')
TimerSetMessage ==
  /\ timer_thread.pc = "message"
  /\ LET k == CallbackNode
         v == IF k = 0 THEN World
              ELSE SetInst(World, k,
                           set_contingency_message(child_ec_list[k].instance, TIMEOUT))
     IN  ThreadStep([v EXCEPT !.thread.pc = "cancel"])

\* treeNode.py:82: cancel_timeout_timer(), the callback returns
TimerCancel ==
  /\ timer_thread.pc = "cancel"
  /\ LET k == CallbackNode
         v == IF k = 0 THEN World
              ELSE SetInst(World, k, cancel_timeout_timer(child_ec_list[k].instance))
     IN  ThreadStep([v EXCEPT !.thread = NoCallback])

NextThreads ==
  \/ AppendChild
  \/ Tick
  \/ AsyncComplete
  \/ SetTimeoutChild
  \/ TimerRead
  \/ TimerAbort
  \/ TimerSetMessage
  \/ TimerCancel

SpecThreads == Init /\ [][NextThreads]_vars

\* ---------------------------------------------------------- FallbackNode
\* what on_tick of a fallback's child does
FallbackOutcomes == { oc \in Outcomes : oc.status # "ABORTED" }

\* registrations of a fallback: a handler that fixes, one that does nothing
FallbackRegistrations ==
  { reg \in Registrations : reg.body \in {<<>>, <<"fix_current_child">>} }

\* variant: outputs bound for FIXED as well
fallback_child_succeeded_bind_fixed(s, cur_child_state) ==
  LET m == Cur(s).instance.msg
      s1 == bind_out_params(s, s.ptr + 1)
      s2 == set_contingency_message(set_status(s1, "SUCCESS"), m)
  IN  Release(s2)

\* the current child ended SUCCESS or FIXED: the fallback is SUCCESS, the
\* outputs are bound unless the child is FIXED, the child is released
fallback_child_succeeded(s, cur_child_state) ==
  LET m == Cur(s).instance.msg
      s1 == IF cur_child_state # "FIXED" THEN bind_out_params(s, s.ptr + 1) ELSE s
      s2 == set_contingency_message(set_status(s1, "SUCCESS"), m)
  IN  Release(s2)

\* variant: the fallback fails without the last child's message
fallback_child_failed_no_message(s) ==
  LET s1 == Release(s)
  IN  IF s1.ptr + 1 < Len(s1.ecs)
      THEN [s1 EXCEPT !.ptr = @ + 1]
      ELSE set_status(s1, "FAILURE")

\* the current child ended FAILURE: release it and advance; after the last
\* child the fallback is FAILURE with that child's message
fallback_child_failed(s) ==
  LET m == Cur(s).instance.msg
      s1 == Release(s)
  IN  IF s1.ptr + 1 < Len(s1.ecs)
      THEN [s1 EXCEPT !.ptr = @ + 1]
      ELSE set_contingency_message(set_status(s1, "FAILURE"), m)

\* how the fallback proceeds on the child's status after dispatch
fallback_proceed(s) ==
  IF s.status # "RUNNING" \/ ~HasCur(s) THEN s
  ELSE IF Cur(s).instance = NoInstance THEN s
  ELSE LET st == Cur(s).instance.status
       IN  IF st \in {"SUCCESS", "FIXED"} THEN fallback_child_succeeded(s, st)
           ELSE IF st = "FAILURE" THEN fallback_child_failed(s)
           ELSE s

\* FallbackNode._internal_on_tick
fallback_internal_on_tick(s0, oc) ==
  LET s1 == IF s0.status # "RUNNING" THEN set_status(s0, "RUNNING") ELSE s0
  IN  IF Len(s1.ecs) = 0 THEN s1
      ELSE LET s2 == IF Cur(s1).instance = NoInstance THEN create_child(s1) ELSE s1
               s3 == IF s2.raised THEN s2 ELSE tick_child(s2, oc)
               s4 == IF s3.raised THEN s3 ELSE apply_contingencies(s3)
           IN  IF s4.raised THEN s4 ELSE fallback_proceed(s4)

\* attach_contingency_handler on the fallback
AttachFallbackHandler ==
  /\ Building
  /\ Len(contingency_handler_list) < MaxHandlers
  /\ \E reg \in FallbackRegistrations :
       /\ \A i \in 1..Len(contingency_handler_list) : contingency_handler_list[i] # reg
       /\ contingency_handler_list' = Append(contingency_handler_list, reg)
  /\ Store(World)
  /\ UNCHANGED <<tick_count, crashed, outside_count, quiet>>

\* a tick in which the child at the cursor was created, ticked once and
\* failed, and no handler did anything
QuietFailTick(w) ==
  /\ ~w.raised
  /\ w.last.pre_status = "FAILURE"
  /\ \E i \in 1..Len(w.log) : w.log[i][1] = "init"
  /\ \A h \in HandlersRun(w) : contingency_handler_list[h].body = <<>>

\* one iteration of the runner's loop with a fallback as root; quiet here
\* says that so far every child failed on its first tick
FallbackTick ==
  /\ RunnerLoopCondition
  /\ tick_count < MaxTicks
  /\ \E oc \in FallbackOutcomes :
       LET w == fallback_internal_on_tick(World, oc)
       IN  /\ Store(w)
           /\ crashed' = w.raised
           /\ quiet' = (quiet /\ QuietFailTick(w))
  /\ tick_count' = tick_count + 1
  /\ UNCHANGED <<contingency_handler_list, outside_count>>

NextFallback ==
  \/ AppendChild
  \/ AttachFallbackHandler
  \/ FallbackTick
  \/ AsyncComplete

SpecFallback == Init /\ [][NextFallback]_vars

\* ---------------------------------------------------------- ParallelNode
\* descriptor of a parallel's child; result is the instance as it was when
\* the child was released (a finished child stays listed with its status)
ParallelContext(id, spec) ==
  [id |-> id, node |-> spec.node, call_in |-> spec.call_in,
   call_out |-> spec.call_out, instance |-> NoInstance, result |-> NoInstance]

\* the status a descriptor shows: of its live instance, else of its result
child_status(ec) ==
  IF ec.instance # NoInstance THEN ec.instance.status ELSE ec.result.status

\* what on_tick of a parallel's child does
ParallelOutcomes ==
  { oc \in Outcomes : oc.status \in {"SUCCESS", "RUNNING"} \/ oc.msg = <<"a", "b">> }

\* registrations of a parallel: the handle_error methods of the
\* TickCountingParallelDelAdd1 / DelAllAdd classes, and a handler that fixes
ParallelRegistrations ==
  { [cls |-> <<"*">>, statuses |-> {"FAILURE"}, msg |-> <<"*">>,
     body |-> << <<"remove_child", 1>>, <<"add_child", 0>>,
                 <<"set_success_threshold", 2>> >>],
    [cls |-> <<"*">>, statuses |-> {"FAILURE"}, msg |-> <<"a", "*">>,
     body |-> << <<"remove_all_children", 0>>, <<"add_child", 0>>,
                 <<"add_child", 0>>, <<"set_success_threshold", 2>> >>],
    [cls |-> ClsA, statuses |-> {"FAILURE"}, msg |-> <<"*">>,
     body |-> << <<"fix_current_child", 0>> >>] }

\* ParallelNode.add_child
parallel_add_child(s, spec) ==
  [s EXCEPT !.ecs = Append(@, ParallelContext(s.next_id, spec)),
            !.next_id = @ + 1]

\* ParallelNode.set_success_threshold
set_success_threshold(s, k) == [s EXCEPT !.threshold = k]

\* del list[k - 1]
list_remove(list, k) == SubSeq(list, 1, k - 1) \o SubSeq(list, k + 1, Len(list))

\* the child at list position k goes: on_delete if it is live
drop_child(s, k) ==
  Emit(IF s.ecs[k].instance # NoInstance THEN Emit(s, "delete", s.ecs[k].id) ELSE s,
       "remove", s.ecs[k].id)

\* variant: the child is deleted but its descriptor stays listed
remove_child_stays_listed(s, i) ==
  IF i + 1 > Len(s.ecs) THEN Raise(s)
  ELSE drop_child(s, i + 1)

\* ParallelNode.remove_child(i), i the 0-based index in the list as it is
remove_child(s, i) ==
  IF i + 1 > Len(s.ecs) THEN Raise(s)
  ELSE [drop_child(s, i + 1) EXCEPT !.ecs = list_remove(@, i + 1)]

RECURSIVE drop_children_from(_, _)
drop_children_from(s, k) ==
  IF k > Len(s.ecs) THEN s ELSE drop_children_from(drop_child(s, k), k + 1)

\* ParallelNode.remove_all_children
parallel_remove_all_children(s) ==
  [drop_children_from(s, 1) EXCEPT !.ecs = <<>>]

\* first phase of a round: every child that has not finished is created on
\* its first round and ticked, in list order; ocs[k] is what on_tick of the
\* child at position k does
RECURSIVE parallel_tick_children(_, _, _)
parallel_tick_children(s, k, ocs) ==
  IF k > Len(s.ecs) \/ s.raised THEN s
  ELSE IF s.ecs[k].result # NoInstance THEN parallel_tick_children(s, k + 1, ocs)
  ELSE LET at == [s EXCEPT !.ptr = k - 1]
           c == IF Cur(at).instance = NoInstance THEN create_child(at) ELSE at
           d == IF c.raised THEN c ELSE tick_child(c, ocs[k])
       IN  parallel_tick_children(d, k + 1, ocs)

\* release the child at position k: on_delete, the status stays on record
parallel_release(s, k) ==
  IF s.ecs[k].instance = NoInstance THEN s
  ELSE [Emit(s, "delete", s.ecs[k].id) EXCEPT
          !.ecs[k].result = s.ecs[k].instance,
          !.ecs[k].instance = NoInstance]

\* release every live child (all), or the live children that finished
RECURSIVE parallel_release_from(_, _, _)
parallel_release_from(s, k, all) ==
  IF k > Len(s.ecs) THEN s
  ELSE parallel_release_from(
         IF all \/ child_status(s.ecs[k]) \in Terminal THEN parallel_release(s, k) ELSE s,
         k + 1, all)

\* abort() reaches every live child that is RUNNING or SUSPENDED
RECURSIVE parallel_abort_children(_, _)
parallel_abort_children(s, k) ==
  IF k > Len(s.ecs) THEN s
  ELSE IF s.ecs[k].instance # NoInstance
          /\ s.ecs[k].instance.status \in {"RUNNING", "SUSPENDED"}
       THEN parallel_abort_children(
              Emit([s EXCEPT !.ecs[k].instance = action_on_abort(@)],
                   "child_aborted", s.ecs[k].id), k + 1)
       ELSE parallel_abort_children(s, k + 1)

\* variant: only the child the round is at is aborted
parallel_internal_on_abort_current_only(s0) ==
  LET s == cancel_timeout_timer(s0)
      a == IF HasCur(s) /\ Cur(s).instance # NoInstance
              /\ Cur(s).instance.status \in {"RUNNING", "SUSPENDED"}
           THEN Emit([s EXCEPT !.ecs[s.ptr + 1].instance = action_on_abort(@)],
                     "child_aborted", Cur(s).id)
           ELSE s
      b == Emit(set_status(a, "ABORTED"), "set_aborted", 0)
  IN  Emit(parallel_release_from(b, 1, TRUE), "on_abort", 0)

\* abort() on a parallel: the timer is cancelled, every live child is
\* aborted, the parallel is ABORTED, the children are released, on_abort
parallel_internal_on_abort(s0) ==
  LET s == cancel_timeout_timer(s0)
      a == parallel_abort_children(s, 1)
      b == Emit(set_status(a, "ABORTED"), "set_aborted", 0)
  IN  Emit(parallel_release_from(b, 1, TRUE), "on_abort", 0)

\* the message handle_error of TickCountingParallelWithAbort sets
ANOTHER_ERROR == <<"c">>

\* one call made by a handler method of a parallel
parallel_HandlerCall(s, op) ==
  CASE op[1] = "remove_child" -> remove_child(s, op[2])
    [] op[1] = "abort" -> parallel_internal_on_abort(s)
    [] op[1] = "set_contingency_message" -> set_contingency_message(s, ANOTHER_ERROR)
    [] op[1] = "add_child" -> parallel_add_child(s, HandlerChild)
    [] op[1] = "remove_all_children" -> parallel_remove_all_children(s)
    [] op[1] = "set_success_threshold" -> set_success_threshold(s, op[2])
    [] op[1] = "fix_current_child" -> fix_current_child(s)

RECURSIVE parallel_RunHandler(_, _)
parallel_RunHandler(s, body) ==
  IF body = <<>> \/ s.raised THEN s
  ELSE parallel_RunHandler(parallel_HandlerCall(s, Head(body)), Tail(body))

\* ControlNode._apply_contingencies in a parallel, from registration i on
RECURSIVE parallel_contingencies_from(_, _)
parallel_contingencies_from(s, i) ==
  IF i > Len(contingency_handler_list) THEN s
  ELSE IF Matches(contingency_handler_list[i], s.held.node,
                  s.held.instance.status, s.held.instance.msg)
       THEN AfterHandler(parallel_RunHandler(
              Emit(Emit(s, "handler", i), "handled", s.held.id),
              contingency_handler_list[i].body))
       ELSE parallel_contingencies_from(s, i + 1)

InList(s, id) == \E k \in 1..Len(s.ecs) : s.ecs[k].id = id
PositionOf(s, id) == CHOOSE k \in 1..Len(s.ecs) : s.ecs[k].id = id

\* second phase: dispatch for the children of this round in the same order;
\* a child an earlier handler removed is passed over
RECURSIVE parallel_dispatch(_, _)
parallel_dispatch(s, ids) ==
  IF ids = <<>> \/ s.raised THEN s
  ELSE IF ~InList(s, Head(ids)) THEN parallel_dispatch(s, Tail(ids))
  ELSE LET k == PositionOf(s, Head(ids))
           at == [s EXCEPT !.ptr = k - 1, !.held = s.ecs[k]]
       IN  parallel_dispatch(parallel_contingencies_from(at, 1), Tail(ids))

\* S and F of the threshold decision
SuccessCount(ecs) ==
  Cardinality({ k \in 1..Len(ecs) : child_status(ecs[k]) \in {"SUCCESS", "FIXED"} })
FailCount(ecs) ==
  Cardinality({ k \in 1..Len(ecs) : child_status(ecs[k]) \in {"FAILURE", "ABORTED"} })

\* bind the outputs of every child that finished with SUCCESS
RECURSIVE parallel_bind_out_from(_, _)
parallel_bind_out_from(s, k) ==
  IF k > Len(s.ecs) THEN s
  ELSE IF child_status(s.ecs[k]) = "SUCCESS"
       THEN LET r == IF s.ecs[k].instance # NoInstance
                     THEN s.ecs[k].instance ELSE s.ecs[k].result
                b == bind_out_params([s EXCEPT !.ecs[k].instance = r], k)
            IN  parallel_bind_out_from([s EXCEPT !.params = b.params], k + 1)
       ELSE parallel_bind_out_from(s, k + 1)

\* variant: FIXED children are not counted as successes
parallel_evaluate_success_only(s) ==
  LET S == Cardinality({ k \in 1..Len(s.ecs) : child_status(s.ecs[k]) = "SUCCESS" })
      F == FailCount(s.ecs)
      N == Len(s.ecs)
  IN  IF S >= s.threshold
      THEN parallel_release_from(set_status(parallel_bind_out_from(s, 1), "SUCCESS"), 1, TRUE)
      ELSE IF N - F < s.threshold
      THEN parallel_release_from(set_status(s, "FAILURE"), 1, TRUE)
      ELSE parallel_release_from(s, 1, FALSE)

\* third phase: the threshold decision on the list and threshold as they
\* are now
parallel_evaluate(s) ==
  LET S == SuccessCount(s.ecs)
      F == FailCount(s.ecs)
      N == Len(s.ecs)
  IN  IF S >= s.threshold
      THEN parallel_release_from(set_status(parallel_bind_out_from(s, 1), "SUCCESS"), 1, TRUE)
      ELSE IF N - F < s.threshold
      THEN parallel_release_from(set_status(s, "FAILURE"), 1, TRUE)
      ELSE parallel_release_from(s, 1, FALSE)

\* the ids of the descriptors that hold an instance, in list order
LiveIdsInOrder(s) ==
  LET live == SelectSeq(s.ecs, LAMBDA ec : ec.instance # NoInstance)
  IN  [k \in 1..Len(live) |-> live[k].id]

\* ParallelNode._internal_on_tick: one round
parallel_internal_on_tick(s0, ocs) ==
  LET s1 == IF s0.status # "RUNNING" THEN set_status(s0, "RUNNING") ELSE s0
      s2 == parallel_tick_children(s1, 1, ocs)
      s3 == IF s2.raised THEN s2 ELSE parallel_dispatch(s2, LiveIdsInOrder(s2))
      s4 == IF s3.raised \/ s3.status \in Terminal THEN s3 ELSE parallel_evaluate(s3)
  IN  [s4 EXCEPT !.ptr = 0, !.held = NoEC]

\* the parallel's constructor or on_init adds a child
ParallelAddChild ==
  /\ Building
  /\ Len(child_ec_list) < MaxParallelChildren
  /\ Store(parallel_add_child(World, HandlerChild))
  /\ UNCHANGED <<contingency_handler_list, tick_count, crashed, outside_count, quiet>>

\* the parallel's constructor or on_init sets the success threshold
SetSuccessThreshold ==
  /\ Building
  /\ success_threshold = 0
  /\ \E k \in 1..MaxThreshold : Store(set_success_threshold(World, k))
  /\ UNCHANGED <<contingency_handler_list, tick_count, crashed, outside_count, quiet>>

\* register_contingency_handler on the parallel
AttachParallelHandler ==
  /\ Building
  /\ Len(contingency_handler_list) < MaxMutationHandlers
  /\ \E reg \in ParallelRegistrations :
       /\ \A i \in 1..Len(contingency_handler_list) : contingency_handler_list[i] # reg
       /\ contingency_handler_list' = Append(contingency_handler_list, reg)
  /\ Store(World)
  /\ UNCHANGED <<tick_count, crashed, outside_count, quiet>>

\* the handler calls of the operation recorded in w.log changed the child
\* list or the threshold
ListMutated(w) ==
  \E h \in HandlersRun(w) :
    \E j \in 1..Len(contingency_handler_list[h].body) :
      contingency_handler_list[h].body[j][1] # "fix_current_child"

\* one iteration of the runner's loop with a parallel as root
ParallelTick ==
  /\ RunnerLoopCondition
  /\ success_threshold >= 1
  /\ tick_count < MaxTicks
  /\ \E ocs \in [1..Len(child_ec_list) -> ParallelOutcomes] :
       LET w == parallel_internal_on_tick(World, ocs)
       IN  /\ Store(w)
           /\ crashed' = w.raised
           /\ quiet' = (quiet /\ ~ListMutated(w))
  /\ tick_count' = tick_count + 1
  /\ UNCHANGED <<contingency_handler_list, outside_count>>

NextParallel ==
  \/ ParallelAddChild
  \/ SetSuccessThreshold
  \/ AttachParallelHandler
  \/ ParallelTick

SpecParallel == Init /\ [][NextParallel]_vars

\* ------------------------------------------------- a parallel that is aborted
\* registrations of TickCountingParallelWithAbort (abort, then a message),
\* and the handler that fixes
ParallelAbortRegistrations ==
  { [cls |-> ClsA, statuses |-> {"FAILURE"}, msg |-> <<"a", "b">>,
     body |-> << <<"abort", 0>>, <<"set_contingency_message", 0>> >>],
    [cls |-> ClsA, statuses |-> {"FAILURE"}, msg |-> <<"*">>,
     body |-> << <<"fix_current_child", 0>> >>] }

AttachParallelAbortHandler ==
  /\ Building
  /\ Len(contingency_handler_list) < MaxMutationHandlers
  /\ \E reg \in ParallelAbortRegistrations :
       /\ \A i \in 1..Len(contingency_handler_list) : contingency_handler_list[i] # reg
       /\ contingency_handler_list' = Append(contingency_handler_list, reg)
  /\ Store(World)
  /\ UNCHANGED <<tick_count, crashed, outside_count, quiet>>

\* TreeNode.abort called on the parallel between two rounds
ParallelAbort ==
  /\ node_status = "RUNNING"
  /\ Outside(parallel_internal_on_abort(Emit(World, "abort", 0)))

NextParallelAbort ==
  \/ ParallelAddChild
  \/ SetSuccessThreshold
  \/ AttachParallelAbortHandler
  \/ ParallelTick
  \/ ParallelAbort

SpecParallelAbort == Init /\ [][NextParallelAbort]_vars

\* ------------------------------------------------- a throttled action
\* time passes
Advance ==
  /\ now < MaxClock
  /\ \E d \in 1..(MaxClock - now) : now' = now + d
  /\ UNCHANGED <<action, engine_ticks, control_vars>>

\* set_throttle_ms called on the action
SetThrottleMs ==
  /\ \E throttle_ms \in 0..MaxThrottle :
       /\ action.throttle_ms # throttle_ms
       /\ action' = set_throttle_ms(action, throttle_ms)
  /\ UNCHANGED <<now, engine_ticks, control_vars>>

\* what on_tick of the action does: it stays RUNNING, suspends or ends
ThrottledOutcomes ==
  { oc \in Outcomes : oc.status \in {"RUNNING", "SUSPENDED", "SUCCESS"} }

\* what external code does with a suspended action: it resumes or ends it
ResumeOutcomes ==
  AsyncOutcomes \cup { oc \in Outcomes : oc.status = "RUNNING" }

\* external code sets the status of the suspended action
Resume ==
  /\ action.node.status = "SUSPENDED"
  /\ \E oc \in ResumeOutcomes : action' = [action EXCEPT !.node = on_tick(@, oc)]
  /\ UNCHANGED <<now, engine_ticks, control_vars>>

\* the engine ticks the action
EngineTick ==
  /\ engine_ticks < MaxEngineTicks
  /\ engine_ticks' = engine_ticks + 1
  /\ \E oc \in ThrottledOutcomes : action' = throttled_on_tick(action, now, oc)
  /\ UNCHANGED <<now, control_vars>>

NextThrottle ==
  \/ Advance
  \/ SetThrottleMs
  \/ EngineTick
  \/ Resume

SpecThrottle == Init /\ [][NextThrottle]_vars

\* ------------------------------------------------------------ properties
\* observations on the log of the last operation
CountIn(lg, ev, n) == Cardinality({ i \in 1..Len(lg) : lg[i] = <<ev, n>> })
Lifecycle(lg) == SelectSeq(lg, LAMBDA e : e[1] \in {"init", "tick", "delete"})
HandlerCalls(lg) == { i \in 1..Len(lg) : lg[i][1] = "handler" }
HandlersInvoked(lg) == { lg[i][2] : i \in HandlerCalls(lg) }
BodiesInvoked(lg) == { contingency_handler_list[h].body : h \in HandlersInvoked(lg) }
Dispatched == last.pre_status # "NONE"

\* C1: a sequence of n children that each succeed on their first tick, with
\* no handler intervening, is RUNNING after ticks 1..n-1 and SUCCESS after
\* tick n, and tick k constructs, ticks and deletes exactly child k.
C1_SequenceSuccess ==
  (quiet /\ tick_count >= 1) =>
    LET k == tick_count
        n == Len(child_ec_list)
    IN  /\ k <= n
        /\ node_status = (IF k < n THEN "RUNNING" ELSE "SUCCESS")
        /\ child_ec_list[k].id = k
        /\ Lifecycle(log) = << <<"init", k>>, <<"tick", k>>, <<"delete", k>> >>
        /\ Live = {}
        /\ ~raised

C1_Witness ==
  quiet /\ tick_count = 2 /\ Len(child_ec_list) = 2 /\ node_status = "SUCCESS"

\* C2: when the child at the cursor ended FAILURE or ABORTED and no handler
\* acted (none matched, or the one that matched did nothing), the sequence
\* ends the tick with the child's status and message, the child is released
\* once, and no other child was created or holds an instance.
C2_FirstFailureTerminates ==
  /\ (Dispatched /\ last.pre_status \in {"FAILURE", "ABORTED"}
        /\ BodiesInvoked(log) \subseteq {<<>>}) =>
       /\ node_status = last.pre_status
       /\ contingency_message = last.pre_msg
       /\ CountIn(log, "delete", last.cid) = 1
       /\ \A i \in 1..Len(log) : log[i][1] = "init" => log[i][2] = last.cid
       /\ child_ptr = last.idx
       /\ Live = {}
       /\ ~raised
  /\ (node_status \in {"FAILURE", "ABORTED"} /\ ~Dispatched) =>
       /\ Live = {}
       /\ \A i \in 1..Len(log) : log[i][1] # "init"

C2_Witness ==
  /\ Dispatched /\ last.pre_status = "FAILURE" /\ last.idx = 0
  /\ Len(child_ec_list) = 2
  /\ HandlersInvoked(log) # {} /\ BodiesInvoked(log) = {<<>>}
  /\ node_status = "FAILURE" /\ contingency_message = <<"a", "b">>

\* C3: the parent's slots change only in a tick whose child is SUCCESS after
\* dispatch, and then (no handler having acted) the slot named by the call
\* argument receives the child's output; a child that is FIXED, FAILURE,
\* ABORTED, RUNNING or SUSPENDED after dispatch leaves every slot as it was.
C3_Step ==
  /\ params' # params => last'.post_status = "SUCCESS"
  /\ (/\ last'.post_status = "SUCCESS"
      /\ BodiesInvoked(log') \subseteq {<<>>}
      /\ last'.post_out # None) => params'["x"] = last'.post_out

C3_OutputsBoundOnSuccessOnly == [][C3_Step]_vars

C3_Witness ==
  /\ last.post_status = "FIXED" /\ last.post_out = 2 /\ params["x"] = None

\* C4: a handler calling fix_current_child for a child that ended FAILURE or
\* ABORTED leaves the child FIXED with an empty message; the sequence does
\* not take the failure, releases the child once, advances the cursor (or
\* becomes SUCCESS after the last child) and binds no output.
FixTick ==
  /\ Dispatched /\ last.pre_status \in {"FAILURE", "ABORTED"}
  /\ BodiesInvoked(log) = {<<"fix_current_child">>}

C4_Step ==
  FixTick' =>
    LET more == last'.idx + 1 < Len(child_ec_list')
    IN  /\ last'.post_status = "FIXED"
        /\ last'.post_msg = <<>>
        /\ node_status' = (IF more THEN "RUNNING" ELSE "SUCCESS")
        /\ child_ptr' = (IF more THEN last'.idx + 1 ELSE last'.idx)
        /\ CountIn(log', "delete", last'.cid) = 1
        /\ Live' = {}
        /\ params' = params
        /\ ~raised'

C4_FixCurrentChild == [][C4_Step]_vars

C4_Witness ==
  /\ FixTick /\ last.post_out = 2 /\ last.pre_msg = <<"a", "b">>
  /\ node_status = "RUNNING" /\ child_ptr = 1

\* C5: one dispatch invokes at most one handler: the one of the first
\* registration, in attachment order, that matches the child's class name,
\* status and message; none if no registration matches.
MatchesLast(i) ==
  Matches(contingency_handler_list[i], last.cls, last.pre_status, last.pre_msg)

C5_FirstMatchWins ==
  Dispatched =>
    /\ Cardinality(HandlerCalls(log)) <= 1
    /\ \A h \in HandlersInvoked(log) :
         /\ MatchesLast(h)
         /\ \A j \in 1..(h - 1) : ~MatchesLast(j)
    /\ HandlersInvoked(log) = {} =>
         \A j \in 1..Len(contingency_handler_list) : ~MatchesLast(j)

C5_Witness ==
  /\ Dispatched /\ HandlersInvoked(log) = {1}
  /\ Len(contingency_handler_list) = 2 /\ MatchesLast(2)
  /\ contingency_handler_list[1] # contingency_handler_list[2]

\* glob match of a whole string: '?' one character, '*' any run of
\* characters, any other character itself
RECURSIVE GlobFrom(_, _, _, _)
GlobFrom(pat, i, str, j) ==
  IF i > Len(pat) THEN j > Len(str)
  ELSE IF pat[i] = "*"
       THEN GlobFrom(pat, i + 1, str, j) \/ (j <= Len(str) /\ GlobFrom(pat, i, str, j + 1))
       ELSE /\ j <= Len(str)
            /\ (pat[i] = "?" \/ pat[i] = str[j])
            /\ GlobFrom(pat, i + 1, str, j + 1)

GlobWhole(pat, str) == GlobFrom(pat, 1, str, 1)

WholeMatchesLast(i) ==
  LET reg == contingency_handler_list[i]
  IN  /\ GlobWhole(reg.cls, last.cls)
      /\ last.pre_status \in reg.statuses
      /\ GlobWhole(reg.msg, last.pre_msg)

\* C6: a registration is taken as matching exactly when its class pattern
\* matches the whole class name, its status set holds the child's status and
\* its message pattern matches the whole message.
C6_WholeStringMatch ==
  Dispatched =>
    \A i \in 1..Len(contingency_handler_list) : MatchesLast(i) <=> WholeMatchesLast(i)

\* C7: a node's status is one of the seven, and a status that is SUCCESS,
\* FAILURE, FIXED or ABORTED is not changed by a later operation on the same
\* instance.
C7_Step ==
  /\ node_status' \in NodeStatus
  /\ node_status \in Terminal => node_status' = node_status
  /\ \A k \in Live : \A k2 \in Live' :
       (child_ec_list[k].id = child_ec_list'[k2].id
          /\ child_ec_list[k].instance.status \in Terminal)
       => child_ec_list'[k2].instance.status = child_ec_list[k].instance.status

C7_TerminalAbsorbing == [][C7_Step]_vars

\* C8: a node whose status is SUCCESS, FAILURE, FIXED or ABORTED has none of
\* the timers started on it still pending (timers are only started on nodes
\* that are not yet terminal).
C8_NoTimerAfterTerminal ==
  /\ node_status \in Terminal => pending_timers = {}
  /\ \A k \in Live :
       child_ec_list[k].instance.status \in Terminal
       => child_ec_list[k].instance.pending = {}

\* C9: when a timer of a node fires, on_timeout is called exactly if the
\* node is RUNNING or SUSPENDED; the default on_timeout leaves the node
\* ABORTED with message 'TIMEOUT'; the fired timer is no longer pending.
C9_Step ==
  /\ CountIn(log', "timer", 0) = 1 =>
       /\ CountIn(log', "on_timeout", 0) = 1 <=> node_status \in {"RUNNING", "SUSPENDED"}
       /\ CountIn(log', "on_timeout", 0) = 1 =>
            node_status' = "ABORTED" /\ contingency_message' = TIMEOUT
       /\ pending_timers' \subseteq pending_timers /\ pending_timers' # pending_timers
  /\ \A k \in Live :
       LET id == child_ec_list[k].id
           before == child_ec_list[k].instance
           after == child_ec_list'[k].instance
       IN  CountIn(log', "timer", id) = 1 =>
             /\ CountIn(log', "on_timeout", id) = 1 <=> before.status \in {"RUNNING", "SUSPENDED"}
             /\ CountIn(log', "on_timeout", id) = 1 =>
                  after.status = "ABORTED" /\ after.msg = TIMEOUT
             /\ after.pending \subseteq before.pending /\ after.pending # before.pending

C9_TimeoutAborts == [][C9_Step]_vars

\* C10: when the current child ended FAILURE with message m and the matching
\* handler calls abort(), the sequence is ABORTED with message m after the
\* tick, the child was released once and on_abort ran once.
AbortTick ==
  /\ Dispatched /\ last.pre_status = "FAILURE"
  /\ BodiesInvoked(log) = {<<"abort">>}

C11_Step ==
  (CountIn(log', "abort", 0) = 1 /\ node_status \in {"IDLE", "RUNNING"}) =>
    /\ ~raised'
    /\ node_status' = "ABORTED"
    /\ timeout_timer' = 0
    /\ CountIn(log', "on_abort", 0) = 1
    /\ Live' = {}

C11_AbortCompletes == [][C11_Step]_vars

\* C12: the life of a child instance.  Its inputs are bound and on_init is
\* called, in this order and once, in the operation that creates it and
\* before any tick of it; it is ticked only while IDLE or RUNNING; on_delete
\* is called at most once, after every other call on it, and exactly in the
\* operation by which the instance leaves its descriptor or the list.
LiveIds == { child_ec_list[k].id : k \in Live }
InstanceOf(id) == (CHOOSE k \in Live : child_ec_list[k].id = id)
EventsOf(lg, id) ==
  SelectSeq(lg, LAMBDA e : e[2] = id /\ e[1] \in {"bind", "init", "tick", "delete"})

C12_Step ==
  \A id \in 1..(next_id' - 1) :
    LET evs == EventsOf(log', id)
        was == id \in LiveIds
        Has(name) == \E i \in 1..Len(evs) : evs[i][1] = name
    IN  /\ (~was /\ evs # <<>>) =>
             /\ Len(evs) >= 2
             /\ evs[1][1] = "bind"
             /\ evs[2][1] = "init"
        /\ \A i \in 1..Len(evs) :
             /\ evs[i][1] \in {"bind", "init"} => (~was /\ i <= 2)
             /\ evs[i][1] = "delete" => i = Len(evs)
        /\ Cardinality({ i \in 1..Len(evs) : evs[i][1] = "tick" }) <= 1
        /\ (was /\ Has("tick")) =>
             child_ec_list[InstanceOf(id)].instance.status \in {"IDLE", "RUNNING"}
        /\ (was \/ evs # <<>>) => ((id \in LiveIds') <=> ~Has("delete"))

C12_ChildLifecycle == [][C12_Step]_vars

\* a handler removed all children while the current child, created in an
\* earlier tick and FAILURE since, was live
C12_Witness ==
  /\ BodiesInvoked(log) = {<<"remove_all_children", "append_child">>}
  /\ last.pre_status = "FAILURE"
  /\ CountIn(log, "delete", last.cid) = 1
  /\ CountIn(log, "init", last.cid) = 0
  /\ CountIn(log, "tick", last.cid) = 0
  /\ Len(child_ec_list) = 1 /\ Live = {}

\* C13: an engine tick runs on_tick of a throttled action only if at least
\* throttle_ms milliseconds lie between the time of the previous on_tick and
\* this tick; with no throttle set every engine tick of an IDLE or RUNNING
\* action runs on_tick.
C13_Step ==
  engine_ticks' # engine_ticks =>
    LET n == Len(action.calls)
        ran == Len(action'.calls) = n + 1
        T == action.throttle_ms
    IN  /\ Len(action'.calls) \in {n, n + 1}
        /\ ran => action'.calls[n + 1] = now
        /\ (ran /\ T # NoThrottle /\ n > 0) =>
             now - action.calls[n] >= T * UnitsPerMs
        /\ (T = NoThrottle /\ action.node.status \in {"IDLE", "RUNNING"}) => ran

C13_Throttle == [][C13_Step]_vars

\* two calls exactly throttle_ms apart with a skipped engine tick in between
C13_Witness ==
  /\ action.throttle_ms = 2
  /\ Len(action.calls) = 2
  /\ action.calls[2] - action.calls[1] = 2 * UnitsPerMs
  /\ engine_ticks = 3
  /\ action.node.status = "RUNNING"

\* the threshold decision for a child list and a threshold
ThresholdRule(ecs, K) ==
  IF SuccessCount(ecs) >= K THEN "SUCCESS"
  ELSE IF Len(ecs) - FailCount(ecs) < K THEN "FAILURE"
  ELSE "RUNNING"

\* C14: while no handler has changed the child list or the threshold, after
\* every round the parallel is SUCCESS iff S >= K, FAILURE iff S < K and
\* N - F < K, and RUNNING otherwise, S counting the children that are
\* SUCCESS or FIXED and F those that are FAILURE or ABORTED.
C14_ParallelThreshold ==
  (quiet /\ tick_count >= 1 /\ ~raised) =>
    LET S == SuccessCount(child_ec_list)
        F == FailCount(child_ec_list)
        N == Len(child_ec_list)
        K == success_threshold
    IN  /\ node_status = "SUCCESS" <=> S >= K
        /\ node_status = "FAILURE" <=> (S < K /\ N - F < K)
        /\ node_status \in {"SUCCESS", "FAILURE", "RUNNING"}
        /\ node_status \in Terminal =>
             \A k \in 1..N : child_ec_list[k].instance = NoInstance

\* threshold 3 with three children of which one failed, decided in the
\* second round
C14_Witness ==
  /\ quiet /\ tick_count = 2 /\ success_threshold = 3
  /\ Len(child_ec_list) = 3
  /\ FailCount(child_ec_list) = 1 /\ SuccessCount(child_ec_list) = 2
  /\ node_status = "FAILURE"

\* C15: in a round in which every handler that ran was fired for a child
\* that ended FAILURE and removed that child, added children and set the
\* threshold, the removed child is no longer listed and the status after
\* the round is the threshold decision on the list and threshold as the
\* handlers left them; in every round each listed child that has not
\* finished is created if need be and ticked, and after a mutation the
\* status after each round is the decision on the current list and
\* threshold.
Handled(lg) == { h \in 1..Len(lg) : lg[h][1] = "handled" }
RemovedWithin(lg, h) ==
  { lg[j][2] : j \in { i \in (h + 1)..Len(lg) :
                         /\ lg[i][1] = "remove"
                         /\ \A m \in (h + 1)..i : lg[m][1] # "handled" } }
ReplacingRound(lg) ==
  /\ Handled(lg) # {}
  /\ \A h \in Handled(lg) :
       /\ lg[h][2] \in RemovedWithin(lg, h)
       /\ \E j \in 1..Len(contingency_handler_list[lg[h - 1][2]].body) :
            contingency_handler_list[lg[h - 1][2]].body[j][1] = "add_child"

C15_Step ==
  (tick_count' = tick_count + 1) =>
    /\ ReplacingRound(log') =>
         /\ ~raised'
         /\ \A h \in Handled(log') : \A k \in 1..Len(child_ec_list') :
              child_ec_list'[k].id # log'[h][2]
         /\ node_status' = ThresholdRule(child_ec_list', success_threshold')
    /\ (~quiet' /\ ~raised') =>
         node_status' = ThresholdRule(child_ec_list', success_threshold')
    /\ ~raised' =>
         \A k \in 1..Len(child_ec_list) :
           LET ec == child_ec_list[k]
           IN  /\ child_status(ec) = "NONE" =>
                    (CountIn(log', "init", ec.id) = 1 /\ CountIn(log', "tick", ec.id) = 1)
               /\ (ec.instance # NoInstance /\ ec.instance.status = "RUNNING") =>
                    CountIn(log', "tick", ec.id) = 1

C15_ParallelMutation == [][C15_Step]_vars

\* the second of three children failed and was replaced, the threshold set
\* to 2; the replacement ran in the next round and the parallel succeeded
C15_Witness ==
  /\ ~quiet /\ tick_count = 2 /\ node_status = "SUCCESS"
  /\ success_threshold = 2
  /\ Len(child_ec_list) = 3
  /\ [k \in 1..3 |-> child_ec_list[k].id] = <<1, 3, 4>>
  /\ child_status(child_ec_list[3]) = "SUCCESS"
  /\ CountIn(log, "tick", 4) = 1

\* C16: a tick of a fallback after whose dispatch the current child is
\* SUCCESS or FIXED leaves the fallback SUCCESS with the child released and
\* the cursor on it; only the child at the cursor is ever created, so the
\* children behind it never are; the child's output reaches the parent's
\* slot for SUCCESS and no slot changes for FIXED.
C16_Step ==
  (tick_count' = tick_count + 1) =>
    /\ \A i \in 1..Len(log') :
         log'[i][1] = "init" => log'[i][2] = child_ec_list[child_ptr + 1].id
    /\ \A k \in 1..Len(child_ec_list') :
         k > child_ptr' + 1 => child_ec_list'[k].instance = NoInstance
    /\ last'.post_status \in {"SUCCESS", "FIXED"} =>
         /\ node_status' = "SUCCESS"
         /\ child_ptr' = child_ptr
         /\ CountIn(log', "delete", last'.cid) = 1
         /\ Live' = {}
         /\ ~raised'
         /\ (last'.post_status = "SUCCESS" /\ last'.post_out # None) =>
              params'["x"] = last'.post_out
         /\ last'.post_status = "FIXED" => params' = params

C16_FallbackSuccess == [][C16_Step]_vars

\* the first of two children was fixed by a handler after writing its
\* output: the fallback is SUCCESS, the second child was never created
C16_Witness ==
  /\ last.post_status = "FIXED" /\ last.post_out = 2 /\ params["x"] = None
  /\ node_status = "SUCCESS" /\ tick_count = 1
  /\ Len(child_ec_list) = 2 /\ child_ptr = 0

\* C17: a fallback of n children that each end FAILURE on their first tick,
\* no handler acting, creates, ticks and deletes child k in tick k, is
\* RUNNING after ticks 1..n-1 and FAILURE after tick n with the message of
\* child n.
C17_FallbackAllFail ==
  (quiet /\ tick_count >= 1) =>
    LET k == tick_count
        n == Len(child_ec_list)
    IN  /\ k <= n
        /\ node_status = (IF k < n THEN "RUNNING" ELSE "FAILURE")
        /\ child_ptr = (IF k < n THEN k ELSE n - 1)
        /\ child_ec_list[k].id = k
        /\ Lifecycle(log) = << <<"init", k>>, <<"tick", k>>, <<"delete", k>> >>
        /\ Live = {}
        /\ k = n => contingency_message = last.pre_msg
        /\ ~raised

C17_Witness ==
  /\ quiet /\ tick_count = 2 /\ Len(child_ec_list) = 2
  /\ node_status = "FAILURE" /\ contingency_message = <<"a", "b">>

\* C18: the tick counter is 0 until the first loop iteration; every
\* iteration ticks the root once and adds one to the counter, and nothing
\* else does either; an iteration starts only while the root is not
\* SUCCESS, FAILURE, FIXED or ABORTED; a root sequence of n children that
\* each succeeded on their first tick has ended with the counter at n.
C18_State ==
  /\ node_status = "IDLE" => tick_count = 0
  /\ (quiet /\ node_status \in Terminal) =>
       (node_status = "SUCCESS" /\ tick_count = Len(child_ec_list))
  /\ (quiet /\ tick_count >= 1 /\ tick_count < Len(child_ec_list)) =>
       RunnerLoopCondition

C18_Step ==
  /\ tick_count' \in {tick_count, tick_count + 1}
  /\ CountIn(log', "ticking", 0) = tick_count' - tick_count
  /\ tick_count' # tick_count => node_status \notin Terminal

C18_RunnerTickCount == []C18_State /\ [][C18_Step]_vars

C18_Witness ==
  /\ quiet /\ node_status = "SUCCESS" /\ tick_count = 2
  /\ Len(child_ec_list) = 2 /\ CountIn(log, "ticking", 0) = 1

\* C19: no tick of a sequence ends in an exception, whatever the children
\* report and whatever the handlers do to the sequence and its child list.
C19_NoTickRaises == ~crashed

\* C20: children inserted with insert_child_after_current while the child
\* at the cursor is executing stand directly behind it, the last inserted
\* first, ahead of the siblings that were listed behind it, and the cursor
\* moves to the last inserted when the current child completes; a child
\* inserted while no child is executing (before the first tick, or after
\* remove_all_children) stands in front of every child inserted before it;
\* a tick only ever creates the child at the cursor.
Ids(ecs) == [k \in 1..Len(ecs) |-> ecs[k].id]
Reverse(seq) == [k \in 1..Len(seq) |-> seq[Len(seq) + 1 - k]]
Inserted(lg) ==
  LET evs == SelectSeq(lg, LAMBDA e : e[1] = "insert")
  IN  [k \in 1..Len(evs) |-> evs[k][2]]
RemovedAll(lg) ==
  \E b \in BodiesInvoked(lg) : \E j \in 1..Len(b) : b[j] = "remove_all_children"

C20_Step ==
  LET ins == Inserted(log')
      old == Ids(child_ec_list)
      new == Ids(child_ec_list')
      p == child_ptr
  IN  /\ (tick_count' = tick_count + 1) =>
           \A i \in 1..Len(log') :
             log'[i][1] = "init" => log'[i][2] = old[p + 1]
      /\ (ins # <<>> /\ ~raised') =>
           IF tick_count' = tick_count
           THEN new = ins \o old
           ELSE IF RemovedAll(log')
           THEN new = Reverse(ins) /\ child_ptr' = 0
           ELSE /\ new = SubSeq(old, 1, p + 1) \o Reverse(ins)
                          \o SubSeq(old, p + 2, Len(old))
                /\ last'.post_status = "FIXED" =>
                     (child_ptr' = p + 1 /\ new[child_ptr' + 1] = ins[Len(ins)])

C20_InsertAfterCurrent == [][C20_Step]_vars

\* the first of two children failed, its handler inserted two children and
\* fixed it; the next tick created the child inserted last
C20_Witness ==
  /\ Ids(child_ec_list) = <<1, 4, 3, 2>>
  /\ tick_count = 2
  /\ CountIn(log, "init", 4) = 1

\* C21: a handler fired for a failed current child that calls
\* remove_all_children() and then adds children: the old child gets
\* on_delete exactly once and nothing of it runs afterwards, the list holds
\* the added children only, none of them instantiated, the cursor is 0 and
\* the sequence stays RUNNING; a tick that starts with no child executing
\* creates and ticks the first listed child and no other, and the sequence
\* ends SUCCESS when the last listed child succeeds.
ReplacingBodies ==
  { <<"remove_all_children", "append_child">>,
    <<"remove_all_children", "insert_child_after_current",
      "insert_child_after_current">> }
Replaced(lg) == \E b \in BodiesInvoked(lg) : b \in ReplacingBodies
PositionIn(lg, ev, n) == CHOOSE i \in 1..Len(lg) : lg[i] = <<ev, n>>

C21_Step ==
  LET old == Ids(child_ec_list)
      new == Ids(child_ec_list')
  IN  (tick_count' = tick_count + 1) =>
        /\ (last'.pre_status = "FAILURE" /\ Replaced(log')) =>
             /\ ~raised'
             /\ CountIn(log', "delete", last'.cid) = 1
             /\ \A i \in 1..Len(log') :
                  i > PositionIn(log', "delete", last'.cid)
                    => log'[i][1] \notin {"init", "tick", "bind", "delete"}
             /\ child_ptr' = 0
             /\ node_status' = "RUNNING"
             /\ contingency_message' = contingency_message
             /\ Len(new) >= 1
             /\ \A k \in 1..Len(new) :
                  /\ new[k] >= next_id
                  /\ child_ec_list'[k].instance = NoInstance
        /\ (child_ec_list # <<>> /\ child_ec_list[child_ptr + 1].instance = NoInstance) =>
             /\ CountIn(log', "init", old[child_ptr + 1]) = 1
             /\ CountIn(log', "tick", old[child_ptr + 1]) = 1
             /\ \A i \in 1..Len(log') :
                  log'[i][1] \in {"init", "tick"} => log'[i][2] = old[child_ptr + 1]
        /\ (~raised' /\ last'.post_status = "SUCCESS" /\ new = old
              /\ last'.idx + 1 = Len(old)) =>
             node_status' = "SUCCESS"

C21_ReplaceChildren == [][C21_Step]_vars

\* the only child failed, the handler replaced the list by one child, and
\* the next tick ran that child to the end of the sequence
C21_Witness ==
  /\ tick_count = 2
  /\ Ids(child_ec_list) = <<2>>
  /\ CountIn(log, "init", 2) = 1
  /\ node_status = "SUCCESS"

\* C22: with the Timer callback interleaved with the tick thread and the
\* external part of an action, a status SUCCESS, FAILURE or FIXED of a
\* node is never replaced by ABORTED by a statement of the callback.
C22_Step ==
  (timer_thread' # timer_thread) =>
    \A k \in Live :
      (/\ child_ec_list[k].instance.status \in {"SUCCESS", "FAILURE", "FIXED"}
       /\ k <= Len(child_ec_list'))
        => child_ec_list'[k].instance.status # "ABORTED"

C22_TimeoutOnlyWhenRunning == [][C22_Step]_vars

\* C23: a sequence that starts a tick with a current child whose status
\* became ABORTED through the default timeout reads the message 'TIMEOUT'
\* from it and ends ABORTED with 'TIMEOUT'.  (Under SpecThreads only the
\* Timer callback aborts a child between ticks.)
C23_Step ==
  (/\ tick_count' = tick_count + 1
   /\ child_ec_list # <<>>
   /\ child_ec_list[child_ptr + 1].instance.status = "ABORTED") =>
    /\ last'.pre_msg = TIMEOUT
    /\ node_status' = "ABORTED"
    /\ contingency_message' = TIMEOUT

C23_TimeoutMessage == [][C23_Step]_vars

\* C24: abort() called on a sequence whose current child is live: a child
\* that is RUNNING or SUSPENDED is aborted first, then the sequence becomes
\* ABORTED, then the child is released (on_delete once), then on_abort
\* runs; a live child with another status is released without being
\* aborted; the sequence has the child's message and no live child is left.
C24_Step ==
  (log' # <<>> /\ log'[1] = <<"abort", 0>> /\ child_ec_list # <<>>
    /\ child_ec_list[child_ptr + 1].instance # NoInstance) =>
    LET c == child_ec_list[child_ptr + 1]
    IN  /\ ~raised'
        /\ log' = IF c.instance.status \in {"RUNNING", "SUSPENDED"}
                  THEN << <<"abort", 0>>, <<"child_aborted", c.id>>,
                          <<"set_aborted", 0>>, <<"delete", c.id>>, <<"on_abort", 0>> >>
                  ELSE << <<"abort", 0>>, <<"set_aborted", 0>>,
                          <<"delete", c.id>>, <<"on_abort", 0>> >>
        /\ node_status' = "ABORTED"
        /\ contingency_message' = c.instance.msg
        /\ \A k \in 1..Len(child_ec_list') : child_ec_list'[k].instance = NoInstance

C24_AbortOrder == [][C24_Step]_vars

\* abort() was called while the second child was running or suspended
C24_Witness ==
  /\ node_status = "ABORTED"
  /\ child_ptr = 1
  /\ log = << <<"abort", 0>>, <<"child_aborted", 2>>, <<"set_aborted", 0>>,
              <<"delete", 2>>, <<"on_abort", 0>> >>

\* C25: between the operations on a sequence (before and after each tick,
\* after every change of the child list by a handler) a descriptor that
\* holds an instance is the descriptor at the cursor: the descriptors
\* below and above the cursor hold none.
C25_OneLiveChildAtCursor == \A k \in Live : k = child_ptr + 1

\* a handler inserted two children behind the first and fixed it; the
\* child inserted last is at the cursor and stays live after its tick
C25_Witness ==
  /\ Ids(child_ec_list) = <<1, 4, 3, 2>>
  /\ child_ptr = 1
  /\ Live = {2}
  /\ child_ec_list[2].instance.status \in {"RUNNING", "SUSPENDED"}

\* C26: an engine tick runs the action's on_tick only if the action is
\* IDLE or RUNNING and the throttle interval has passed since the last
\* on_tick; an engine tick of an action that is SUSPENDED, terminal or
\* still throttled runs nothing and leaves status, message and the time of
\* the last on_tick as they were.
C26_Step ==
  engine_ticks' # engine_ticks =>
    LET ran == Len(action'.calls) = Len(action.calls) + 1
        T == action.throttle_ms
        throttled == T # NoThrottle /\ now - action.last_ts < T * UnitsPerMs
        skipped == action.node.status \notin {"IDLE", "RUNNING"} \/ throttled
    IN  /\ ran => ~skipped
        /\ skipped => ~ran
        /\ ~ran => /\ action'.calls = action.calls
                   /\ action'.node.status = action.node.status
                   /\ action'.node.msg = action.node.msg
                   /\ action'.last_ts = action.last_ts

C26_TickOnlyWhenDue == [][C26_Step]_vars

\* an action without throttle suspended itself in its first on_tick and two
\* more engine ticks did not run it
C26_Witness ==
  /\ action.throttle_ms = NoThrottle
  /\ action.node.status = "SUSPENDED"
  /\ Len(action.calls) = 1
  /\ engine_ticks = 3

\* C27: a tick after whose dispatch the current child is RUNNING or
\* SUSPENDED leaves the sequence RUNNING, the cursor where it was and the
\* child live, without on_delete; a tick that finds a live child at the
\* cursor does not create it, bind its inputs or call on_init again, and
\* does not tick it while it is SUSPENDED.
C27_Step ==
  (tick_count' = tick_count + 1) =>
    /\ (~raised' /\ last'.post_status \in {"RUNNING", "SUSPENDED"}) =>
         /\ node_status' = "RUNNING"
         /\ child_ptr' = child_ptr
         /\ Ids(child_ec_list') = Ids(child_ec_list)
         /\ child_ec_list'[child_ptr + 1].instance # NoInstance
         /\ child_ec_list'[child_ptr + 1].instance.status = last'.post_status
         /\ CountIn(log', "delete", last'.cid) = 0
    /\ (child_ec_list # <<>> /\ child_ec_list[child_ptr + 1].instance # NoInstance) =>
         LET c == child_ec_list[child_ptr + 1]
         IN  /\ \A i \in 1..Len(log') : log'[i][1] \notin {"init", "bind"}
             /\ c.instance.status = "SUSPENDED" =>
                  /\ CountIn(log', "tick", c.id) = 0
                  /\ child_ec_list'[child_ptr + 1].instance = c.instance
             /\ (/\ child_ptr + 1 <= Len(child_ec_list')
                 /\ child_ec_list'[child_ptr + 1].instance # NoInstance) =>
                  child_ec_list'[child_ptr + 1].instance.slots["a"] = c.instance.slots["a"]

C27_RunningChildKept == [][C27_Step]_vars

\* the second tick found the first child suspended and did not tick it
C27_Witness ==
  /\ tick_count = 2
  /\ child_ptr = 0
  /\ node_status = "RUNNING"
  /\ Live = {1}
  /\ child_ec_list[1].instance.status = "SUSPENDED"
  /\ log = << <<"ticking", 0>> >>

\* C28: a tick of a sequence ticks at most one child and only the child
\* that is at the cursor when the tick starts; a child the cursor advances
\* to in a tick is neither created nor ticked in that tick; unless a
\* handler removes the children the cursor never moves back, so the index
\* of the ticked child never decreases from tick to tick.
TickedIn(lg) == { i \in 1..Len(lg) : lg[i][1] = "tick" }

C28_Step ==
  /\ (tick_count' = tick_count + 1) =>
       /\ Cardinality(TickedIn(log')) <= 1
       /\ \A i \in TickedIn(log') :
            /\ child_ptr + 1 <= Len(child_ec_list)
            /\ log'[i][2] = child_ec_list[child_ptr + 1].id
       /\ (~raised' /\ child_ptr' = child_ptr + 1) =>
            /\ child_ec_list'[child_ptr' + 1].instance = NoInstance
            /\ CountIn(log', "tick", child_ec_list'[child_ptr' + 1].id) = 0
  /\ ~RemovedAll(log') => child_ptr' >= child_ptr

C28_OneChildPerTick == [][C28_Step]_vars

\* the first tick ran the first child and moved the cursor, the second tick
\* ticked the second child
C28_Witness ==
  /\ tick_count = 2
  /\ last.idx = 1
  /\ CountIn(log, "tick", last.cid) = 1
  /\ CountIn(log, "init", last.cid) = 1

\* C29: a tick that creates a child whose number of call arguments differs
\* from its number of declared inputs, in either direction, ends without
\* an exception; the child is initialized and ticked, its first
\* min(#call arguments, #declared inputs) inputs are bound and the declared
\* inputs beyond that stay unset.
Min(a, b) == IF a < b THEN a ELSE b
ArgValue(arg) == IF arg.kind = "ref" THEN params[arg.name] ELSE arg.val

C29_Step ==
  (/\ tick_count' = tick_count + 1
   /\ child_ec_list # <<>>
   /\ child_ec_list[child_ptr + 1].instance = NoInstance) =>
    LET c == child_ec_list[child_ptr + 1]
        decl == InParams(c.node)
        n == Min(Len(c.call_in), Len(decl))
        after == child_ec_list'[child_ptr + 1].instance
    IN  /\ ~raised'
        /\ CountIn(log', "init", c.id) = 1
        /\ CountIn(log', "tick", c.id) = 1
        /\ after # NoInstance =>
             /\ \A i \in 1..n : after.slots[decl[i]] = ArgValue(c.call_in[i])
             /\ \A i \in (n + 1)..Len(decl) : after.slots[decl[i]] = None

C29_ArityMismatchTolerated == [][C29_Step]_vars

\* C30: when a child ends SUCCESS, each parent slot named by a call
\* argument at a declared output position whose output the child set
\* receives that value; every other parent slot keeps its value (outputs
\* left unset, outputs without a call argument); the tick ends without an
\* exception and the sequence advances or ends SUCCESS.
C30_Step ==
  (/\ tick_count' = tick_count + 1
   /\ last'.pre_status = "SUCCESS") =>
    LET c == child_ec_list[child_ptr + 1]
        decl == OutParams(c.node)
        val == [d \in {"y", "z"} |-> IF d = "y" THEN last'.post_out_y ELSE last'.post_out]
        bound(n) == { i \in 1..Min(Len(decl), Len(c.call_out)) :
                        c.call_out[i] = n /\ val[decl[i]] # None }
    IN  /\ ~raised'
        /\ \A n \in ParentSlots :
             /\ bound(n) = {} => params'[n] = params[n]
             /\ \A i \in bound(n) : params'[n] = val[decl[i]]
        /\ \/ child_ptr' = child_ptr + 1 /\ node_status' = "RUNNING"
           \/ child_ptr + 1 = Len(child_ec_list) /\ node_status' = "SUCCESS"

C30_OutputBinding == [][C30_Step]_vars

\* a child with outputs '?y ?z' called with '=> ?x ?w' left ?y unset and
\* set ?z: ?x kept its value and ?w received the value of ?z
C30_Witness ==
  /\ tick_count = 1
  /\ last.cls = ClsC
  /\ last.pre_status = "SUCCESS"
  /\ last.post_out_y = None /\ last.post_out = 2
  /\ params = [x |-> None, w |-> 2]
  /\ child_ptr = 1

\* C31: a child the sequence creates has, by position, each input slot set
\* to the literal call argument or to the value the referenced parent slot
\* holds when the tick starts; a parent slot only changes in a tick in
\* which the dispatched child ended SUCCESS, to the value of the output
\* bound to it, so a value of a FIXED or FAILURE child reaches no sibling.
C31_Step ==
  (tick_count' = tick_count + 1) =>
    /\ (/\ child_ec_list # <<>>
        /\ child_ec_list[child_ptr + 1].instance = NoInstance
        /\ ~raised'
        /\ child_ec_list'[child_ptr + 1].instance # NoInstance) =>
         LET c == child_ec_list[child_ptr + 1]
             decl == InParams(c.node)
         IN  \A i \in 1..Len(c.call_in) :
               child_ec_list'[child_ptr + 1].instance.slots[decl[i]]
                 = ArgValue(c.call_in[i])
    /\ \A n \in ParentSlots :
         params'[n] # params[n] =>
           /\ last'.post_status = "SUCCESS"
           /\ LET c == child_ec_list[child_ptr + 1]
                  decl == OutParams(c.node)
              IN  \E i \in 1..Min(Len(decl), Len(c.call_out)) :
                    /\ c.call_out[i] = n
                    /\ params'[n] = (IF decl[i] = "y" THEN last'.post_out_y
                                     ELSE last'.post_out)

C31_DataFlow == [][C31_Step]_vars

\* the first child wrote 2 through '=> ?x ?w' to ?w, the second child was
\* created with '1 ?w' and holds 1 and 2 in its inputs
C31_Witness ==
  /\ tick_count = 2
  /\ child_ptr = 1
  /\ params["w"] = 2
  /\ Live = {2}
  /\ child_ec_list[2].call_in = <<Lit(1), Ref("w")>>
  /\ child_ec_list[2].instance.slots["a"] = 1
  /\ child_ec_list[2].instance.slots["b"] = 2

\* ------------------------------------- a sequence that is ticked for ever
\* a handler that clears the child list and adds nothing
RemoveOnly ==
  [cls |-> <<"*">>, statuses |-> {"FAILURE"}, msg |-> <<"*">>,
   body |-> <<"remove_all_children">>]

\* the handlers of a sequence that add no children
LiveRegistrations == Registrations \cup {RemoveOnly}

AttachLiveHandler ==
  /\ Building
  /\ Len(contingency_handler_list) < MaxHandlers
  /\ \E reg \in LiveRegistrations :
       /\ \A i \in 1..Len(contingency_handler_list) : contingency_handler_list[i] # reg
       /\ contingency_handler_list' = Append(contingency_handler_list, reg)
  /\ Store(World)
  /\ UNCHANGED <<tick_count, crashed, outside_count, quiet>>

\* the sequence is ticked again and again while it is not terminal, also
\* by a caller that goes on after a tick raised; the tick counter goes
\* round in 1..MaxTicks, so that every tick is a step
LiveTick ==
  /\ node_status \notin Terminal
  /\ \E oc \in Outcomes :
       LET w == internal_on_tick(World, oc)
       IN  /\ Store(w)
           /\ crashed' = w.raised
           /\ quiet' = (quiet /\ QuietTick(w))
  /\ tick_count' = (tick_count % MaxTicks) + 1
  /\ UNCHANGED <<contingency_handler_list, outside_count>>

\* the external part of an asynchronous action reports a terminal status
LiveAsyncComplete ==
  \E k \in Live, oc \in AsyncOutcomes :
    /\ child_ec_list[k].instance.status \in {"RUNNING", "SUSPENDED"}
    /\ Store(SetInst(World, k, on_tick(child_ec_list[k].instance, oc)))
    /\ quiet' = FALSE
    /\ UNCHANGED <<contingency_handler_list, tick_count, crashed, outside_count>>

NextLive ==
  \/ AppendChild
  \/ AttachLiveHandler
  \/ LiveTick
  \/ LiveAsyncComplete

\* the runner keeps ticking: weak fairness of LiveTick, which is enabled
\* exactly while the sequence is not terminal; and an action that is
\* RUNNING or SUSPENDED is completed by its external part
SpecLive ==
  /\ Init
  /\ [][NextLive]_vars
  /\ ([]<>(node_status \in Terminal) \/ []<><<LiveTick>>_vars)
  /\ WF_vars(LiveAsyncComplete)

\* C32: abort() on a parallel, from outside or from a handler during a
\* round: every child that was live RUNNING or SUSPENDED is ABORTED, no
\* descriptor holds an instance, the parallel is ABORTED, and when a
\* handler called abort() the round ends with that status and with the
\* message the handler set after the call.
AbortedIn(lg) == \E i \in 1..Len(lg) : lg[i] = <<"on_abort", 0>>
AbortBody == << <<"abort", 0>>, <<"set_contingency_message", 0>> >>

C32_Step ==
  (AbortedIn(log') /\ ~raised') =>
    /\ node_status' = "ABORTED"
    /\ \A k \in 1..Len(child_ec_list') :
         /\ child_ec_list'[k].instance = NoInstance
         /\ child_status(child_ec_list'[k]) \notin {"RUNNING", "SUSPENDED"}
         /\ CountIn(log', "child_aborted", child_ec_list'[k].id) = 1
              => child_status(child_ec_list'[k]) = "ABORTED"
    /\ (tick_count' = tick_count) =>
         /\ contingency_message' = contingency_message
         /\ Len(child_ec_list') = Len(child_ec_list)
         /\ \A k \in 1..Len(child_ec_list) :
              child_status(child_ec_list'[k]) =
                IF child_ec_list[k].instance # NoInstance
                   /\ child_ec_list[k].instance.status \in {"RUNNING", "SUSPENDED"}
                THEN "ABORTED" ELSE child_status(child_ec_list[k])
    /\ (tick_count' = tick_count + 1 /\ AbortBody \in BodiesInvoked(log')) =>
         contingency_message' = ANOTHER_ERROR

C33_Step ==
  (tick_count' = tick_count + 1 /\ child_ec_list = <<>>) =>
    /\ node_status' = "RUNNING"
    /\ ~raised'
    /\ log' = << <<"ticking", 0>> >>
    /\ UNCHANGED <<contingency_message, timeout_timer, pending_timers,
                   timers_started, child_ptr, child_ec_list,
                   contingency_handler_list, params, next_id>>

C33_EmptySequenceRuns == [][C33_Step]_vars

\* the second tick of a sequence that never got a child
C33_Witness ==
  /\ tick_count = MaxTicks
  /\ child_ec_list = <<>>
  /\ node_status = "RUNNING"
  /\ log = << <<"ticking", 0>> >>

\* C34: after every tick and every child-list operation the cursor is at
\* least 0 and, when the list is not empty, less than the length of the
\* list, also after the last child has completed.
C34_CursorInRange ==
  /\ child_ptr >= 0
  /\ child_ec_list # <<>> => child_ptr < Len(child_ec_list)

\* the last of two children has completed and the sequence is SUCCESS
C34_Witness ==
  /\ node_status = "SUCCESS"
  /\ Len(child_ec_list) = 2
  /\ child_ptr = 1
  /\ Live = {}
  /\ C34_CursorInRange

\* C35: a sequence with children, all of which reach a terminal status,
\* and with handlers that add no children, eventually is SUCCESS, FAILURE
\* or ABORTED with no descriptor holding a live instance.
C35_Terminates ==
  (child_ec_list # <<>>)
    ~> (node_status \in {"SUCCESS", "FAILURE", "ABORTED"} /\ Live = {})

\* C36: every tick of a sequence with children dispatches on the child at
\* the cursor, also when that child was not ticked; a tick that invokes a
\* handler on a terminal status (SUCCESS, FAILURE, ABORTED) invokes one
\* handler only and releases that child after the handler, so a later
\* tick finds no instance to dispatch the same outcome on.
C36_Step ==
  (tick_count' = tick_count + 1 /\ child_ec_list # <<>>) =>
    LET id == last'.cid
        calls == HandlerCalls(log')
    IN  /\ ~raised' => last'.pre_status # "NONE"
        /\ (calls # {} /\ last'.pre_status \in {"SUCCESS", "FAILURE", "ABORTED"}) =>
             /\ Cardinality(calls) = 1
             /\ id \notin LiveIds'
             /\ CountIn(log', "delete", id) = 1
             /\ \A i \in calls :
                  \E j \in (i + 1)..Len(log') : log'[j] = <<"delete", id>>

C36_TerminalDispatchedOnce == [][C36_Step]_vars

\* a tick that did not tick the child, which had failed between two
\* ticks: the handler ran and the child was released
C36_Witness ==
  /\ tick_count = 2
  /\ last.pre_status = "FAILURE"
  /\ TickedIn(log) = {}
  /\ HandlersInvoked(log) # {}
  /\ CountIn(log, "delete", last.cid) = 1
  /\ last.cid \notin LiveIds

====
